---- MODULE Spec2Model ----
(***************************************************************************)
(* YT_Transcriber: the extraction / transcription pipeline.                *)
(*                                                                         *)
(* The repository holds the pipeline twice: src/src/YouTubeAudioExtractor  *)
(* .py (the packaged window, variant "src") and src/app.py (the single     *)
(* file application, variant "app").  Both are modelled; the variable      *)
(* variant says which program is running.                                  *)
(*                                                                         *)
(* Texts (titles, file names, transcripts, messages) are sequences of      *)
(* tokens; a token is a string standing for one character ("a", " ", "#")  *)
(* or for a lump of non-blank characters ("tiny", ".mp3", a message).      *)
(***************************************************************************)
EXTENDS Integers, Sequences, FiniteSets, TLC

\* ------------------------------------------------------------------ bounds
MaxRuns == 2
MaxHooks == 2
MaxSegments == 5
RecursionLimit == 3
MaxTitleLen == 2

Runs == 1..MaxRuns

\* ------------------------------------------------------------------- texts
\* str.isspace(): the characters str.strip(), str.split() and the class \s
\* take for white space.  A character up to U+00FF is written as it is
\* (U+0009..U+000D, U+001C..U+0020, U+0085, U+00A0); a character beyond
\* U+00FF is written as its escape, "\\u" and four hexadecimal digits.
WhiteSpace ==
    {"\t", "\n", "", "\f", "\r", "", "", "", "", " ", "", " ",
     "\\u1680", "\\u2000", "\\u2001", "\\u2002", "\\u2003", "\\u2004",
     "\\u2005", "\\u2006", "\\u2007", "\\u2008", "\\u2009", "\\u200a",
     "\\u2028", "\\u2029", "\\u202f", "\\u205f", "\\u3000"}

\* str.strip() without arguments: drop leading and trailing white space.
RECURSIVE LStrip(_)
LStrip(s) ==
    IF s # <<>> /\ Head(s) \in WhiteSpace THEN LStrip(Tail(s)) ELSE s

RECURSIVE RStrip(_)
RStrip(s) ==
    IF s # <<>> /\ s[Len(s)] \in WhiteSpace
    THEN RStrip(SubSeq(s, 1, Len(s) - 1))
    ELSE s

Strip(s) == LStrip(RStrip(s))

\* s[:n]
Prefix(s, n) == SubSeq(s, 1, IF Len(s) < n THEN Len(s) ELSE n)

\* ------------------------------------------------------------- environment
Variants == {"src", "app"}
Systems == {"Windows", "Darwin", "Linux", "Other"}

\* What the user can type in the URL field and in the model field; env.urls
\* are the URL texts of a specification.
UrlTexts == {<<" ">>, <<"u">>}
ModelTexts == {<<" ">>, <<" ", "tiny", " ">>}

\* Titles the downloader can report (info['title']); NoTitle: the key is absent.
NoTitle == <<"<absent>">>
\* NullTitle: the key is there and its value is None.
NullTitle == <<"<None>">>

\* ------------------------------------------------------------------- state
VARIABLES
    env,                  \* what the environment may do in this specification
    variant,              \* which program runs: "src" or "app"
    system,               \* platform.system()
    url_input,            \* QLineEdit texts
    model_selector,
    transcribe_checkbox,  \* app.py only
    extract_button,       \* isEnabled() of the three buttons
    copy_button,
    save_button,
    progress_bar,         \* QProgressBar value
    transcript_text,
    current_audio_file,   \* [has, val]: has = FALSE is None
    current_transcript,
    dialog,               \* the modal dialog that takes the input, or "none"
    parked,               \* the modal dialogs open below it, the nearest first
    dest_path,            \* app.py: the destination field, a path
    status_bar,           \* the message of the status bar
    clipboard,            \* [has, val]: has = FALSE is what was there before
    explorer,             \* [has, val]: the folder last handed to the file manager
    running,              \* FALSE once the application has been aborted
    nruns,                \* worker threads started so far
    pc,                   \* per worker: where it is in extract_audio
    loc,                  \* per worker: the locals of extract_audio
    signals,              \* queued signal emissions not yet handled by the GUI thread
    fs,                   \* files on disk: records [path, run]; run: who wrote it,
                          \* 0 for an earlier launch and for the user
    ffmpeg_dir,           \* names present in the managed ffmpeg directory
    emitted,              \* history, per worker: every event it emitted, in order
    request,              \* history, per worker: the widget values at trigger time
    calls                 \* history, per worker: collaborator calls made

vars == <<env, variant, system, url_input, model_selector, transcribe_checkbox,
          extract_button, copy_button, save_button, progress_bar,
          transcript_text, current_audio_file, current_transcript, dialog,
          parked, dest_path, status_bar, clipboard, explorer, running,
          nruns, pc, loc, signals, fs, ffmpeg_dir, emitted, request, calls>>

ui == <<url_input, model_selector, transcribe_checkbox, extract_button,
        copy_button, save_button, progress_bar, transcript_text,
        current_audio_file, current_transcript, dialog, parked, dest_path,
        status_bar, clipboard, explorer, running>>

None == [has |-> FALSE, val |-> <<>>]
Some(v) == [has |-> TRUE, val |-> v]

\* ------------------------------------------------------------------ events
\* DownloadSignals: progress(float), finished(str, str), error(str), status(str)
\* The float of a progress emission is pct, its integer part, and frac, the
\* binary digits after the point.
Progress(r, p) ==
    [run |-> r, kind |-> "progress", pct |-> p, frac |-> <<>>, text |-> <<>>,
     path |-> <<>>]
ProgressFloat(r, x) == [Progress(r, x.int) EXCEPT !.frac = x.frac]
Status(r, t) ==
    [run |-> r, kind |-> "status", pct |-> 0, frac |-> <<>>, text |-> t, path |-> <<>>]
Finished(r, f, t) ==
    [run |-> r, kind |-> "finished", pct |-> 0, frac |-> <<>>, text |-> t, path |-> f]
Error(r, t) ==
    [run |-> r, kind |-> "error", pct |-> 0, frac |-> <<>>, text |-> t, path |-> <<>>]

Terminal == {"finished", "error"}

\* ------------------------------------------------------- title sanitization
\* The class \w of a str pattern: str.isalnum() or "_".  A character above
\* U+00FF is the token of its code point, "\\u" and four hexadecimal digits
\* or "\\U" and eight; the code points of the letters (str.isalpha) and of
\* the other alphanumerics are listed as ranges.
HexDigit(h) ==
    CASE h = "0" -> 0 [] h = "1" -> 1 [] h = "2" -> 2 [] h = "3" -> 3
      [] h = "4" -> 4 [] h = "5" -> 5 [] h = "6" -> 6 [] h = "7" -> 7
      [] h = "8" -> 8 [] h = "9" -> 9
      [] h \in {"a", "A"} -> 10 [] h \in {"b", "B"} -> 11
      [] h \in {"c", "C"} -> 12 [] h \in {"d", "D"} -> 13
      [] h \in {"e", "E"} -> 14 [] h \in {"f", "F"} -> 15
      [] OTHER -> -1

\* Whether c is the token of a code point, and that code point.
IsCodeToken(c) ==
    /\ Len(c) \in {6, 10}
    /\ SubSeq(c, 1, 2) = (IF Len(c) = 6 THEN "\\u" ELSE "\\U")
    /\ \A i \in 3..Len(c) : HexDigit(SubSeq(c, i, i)) >= 0

RECURSIVE HexNumber(_)
HexNumber(h) ==
    IF Len(h) = 0 THEN 0
    ELSE 16 * HexNumber(SubSeq(h, 1, Len(h) - 1)) + HexDigit(SubSeq(h, Len(h), Len(h)))

CodePoint(c) == HexNumber(SubSeq(c, 3, Len(c)))

InRanges(n, ranges) ==
    \E i \in DOMAIN ranges : ranges[i][1] <= n /\ n <= ranges[i][2]

LetterRanges ==
  <<
    <<256, 705>>, <<710, 721>>, <<736, 740>>, <<748, 748>>, <<750, 750>>,
    <<880, 884>>, <<886, 887>>, <<890, 893>>, <<895, 895>>, <<902, 902>>,
    <<904, 906>>, <<908, 908>>, <<910, 929>>, <<931, 1013>>, <<1015, 1153>>,
    <<1162, 1327>>, <<1329, 1366>>, <<1369, 1369>>, <<1376, 1416>>,
    <<1488, 1514>>, <<1519, 1522>>, <<1568, 1610>>, <<1646, 1647>>,
    <<1649, 1747>>, <<1749, 1749>>, <<1765, 1766>>, <<1774, 1775>>,
    <<1786, 1788>>, <<1791, 1791>>, <<1808, 1808>>, <<1810, 1839>>,
    <<1869, 1957>>, <<1969, 1969>>, <<1994, 2026>>, <<2036, 2037>>,
    <<2042, 2042>>, <<2048, 2069>>, <<2074, 2074>>, <<2084, 2084>>,
    <<2088, 2088>>, <<2112, 2136>>, <<2144, 2154>>, <<2160, 2183>>,
    <<2185, 2190>>, <<2208, 2249>>, <<2308, 2361>>, <<2365, 2365>>,
    <<2384, 2384>>, <<2392, 2401>>, <<2417, 2432>>, <<2437, 2444>>,
    <<2447, 2448>>, <<2451, 2472>>, <<2474, 2480>>, <<2482, 2482>>,
    <<2486, 2489>>, <<2493, 2493>>, <<2510, 2510>>, <<2524, 2525>>,
    <<2527, 2529>>, <<2544, 2545>>, <<2556, 2556>>, <<2565, 2570>>,
    <<2575, 2576>>, <<2579, 2600>>, <<2602, 2608>>, <<2610, 2611>>,
    <<2613, 2614>>, <<2616, 2617>>, <<2649, 2652>>, <<2654, 2654>>,
    <<2674, 2676>>, <<2693, 2701>>, <<2703, 2705>>, <<2707, 2728>>,
    <<2730, 2736>>, <<2738, 2739>>, <<2741, 2745>>, <<2749, 2749>>,
    <<2768, 2768>>, <<2784, 2785>>, <<2809, 2809>>, <<2821, 2828>>,
    <<2831, 2832>>, <<2835, 2856>>, <<2858, 2864>>, <<2866, 2867>>,
    <<2869, 2873>>, <<2877, 2877>>, <<2908, 2909>>, <<2911, 2913>>,
    <<2929, 2929>>, <<2947, 2947>>, <<2949, 2954>>, <<2958, 2960>>,
    <<2962, 2965>>, <<2969, 2970>>, <<2972, 2972>>, <<2974, 2975>>,
    <<2979, 2980>>, <<2984, 2986>>, <<2990, 3001>>, <<3024, 3024>>,
    <<3077, 3084>>, <<3086, 3088>>, <<3090, 3112>>, <<3114, 3129>>,
    <<3133, 3133>>, <<3160, 3162>>, <<3165, 3165>>, <<3168, 3169>>,
    <<3200, 3200>>, <<3205, 3212>>, <<3214, 3216>>, <<3218, 3240>>,
    <<3242, 3251>>, <<3253, 3257>>, <<3261, 3261>>, <<3293, 3294>>,
    <<3296, 3297>>, <<3313, 3314>>, <<3332, 3340>>, <<3342, 3344>>,
    <<3346, 3386>>, <<3389, 3389>>, <<3406, 3406>>, <<3412, 3414>>,
    <<3423, 3425>>, <<3450, 3455>>, <<3461, 3478>>, <<3482, 3505>>,
    <<3507, 3515>>, <<3517, 3517>>, <<3520, 3526>>, <<3585, 3632>>,
    <<3634, 3635>>, <<3648, 3654>>, <<3713, 3714>>, <<3716, 3716>>,
    <<3718, 3722>>, <<3724, 3747>>, <<3749, 3749>>, <<3751, 3760>>,
    <<3762, 3763>>, <<3773, 3773>>, <<3776, 3780>>, <<3782, 3782>>,
    <<3804, 3807>>, <<3840, 3840>>, <<3904, 3911>>, <<3913, 3948>>,
    <<3976, 3980>>, <<4096, 4138>>, <<4159, 4159>>, <<4176, 4181>>,
    <<4186, 4189>>, <<4193, 4193>>, <<4197, 4198>>, <<4206, 4208>>,
    <<4213, 4225>>, <<4238, 4238>>, <<4256, 4293>>, <<4295, 4295>>,
    <<4301, 4301>>, <<4304, 4346>>, <<4348, 4680>>, <<4682, 4685>>,
    <<4688, 4694>>, <<4696, 4696>>, <<4698, 4701>>, <<4704, 4744>>,
    <<4746, 4749>>, <<4752, 4784>>, <<4786, 4789>>, <<4792, 4798>>,
    <<4800, 4800>>, <<4802, 4805>>, <<4808, 4822>>, <<4824, 4880>>,
    <<4882, 4885>>, <<4888, 4954>>, <<4992, 5007>>, <<5024, 5109>>,
    <<5112, 5117>>, <<5121, 5740>>, <<5743, 5759>>, <<5761, 5786>>,
    <<5792, 5866>>, <<5873, 5880>>, <<5888, 5905>>, <<5919, 5937>>,
    <<5952, 5969>>, <<5984, 5996>>, <<5998, 6000>>, <<6016, 6067>>,
    <<6103, 6103>>, <<6108, 6108>>, <<6176, 6264>>, <<6272, 6276>>,
    <<6279, 6312>>, <<6314, 6314>>, <<6320, 6389>>, <<6400, 6430>>,
    <<6480, 6509>>, <<6512, 6516>>, <<6528, 6571>>, <<6576, 6601>>,
    <<6656, 6678>>, <<6688, 6740>>, <<6823, 6823>>, <<6917, 6963>>,
    <<6981, 6988>>, <<7043, 7072>>, <<7086, 7087>>, <<7098, 7141>>,
    <<7168, 7203>>, <<7245, 7247>>, <<7258, 7293>>, <<7296, 7304>>,
    <<7312, 7354>>, <<7357, 7359>>, <<7401, 7404>>, <<7406, 7411>>,
    <<7413, 7414>>, <<7418, 7418>>, <<7424, 7615>>, <<7680, 7957>>,
    <<7960, 7965>>, <<7968, 8005>>, <<8008, 8013>>, <<8016, 8023>>,
    <<8025, 8025>>, <<8027, 8027>>, <<8029, 8029>>, <<8031, 8061>>,
    <<8064, 8116>>, <<8118, 8124>>, <<8126, 8126>>, <<8130, 8132>>,
    <<8134, 8140>>, <<8144, 8147>>, <<8150, 8155>>, <<8160, 8172>>,
    <<8178, 8180>>, <<8182, 8188>>, <<8305, 8305>>, <<8319, 8319>>,
    <<8336, 8348>>, <<8450, 8450>>, <<8455, 8455>>, <<8458, 8467>>,
    <<8469, 8469>>, <<8473, 8477>>, <<8484, 8484>>, <<8486, 8486>>,
    <<8488, 8488>>, <<8490, 8493>>, <<8495, 8505>>, <<8508, 8511>>,
    <<8517, 8521>>, <<8526, 8526>>, <<8579, 8580>>, <<11264, 11492>>,
    <<11499, 11502>>, <<11506, 11507>>, <<11520, 11557>>, <<11559, 11559>>,
    <<11565, 11565>>, <<11568, 11623>>, <<11631, 11631>>, <<11648, 11670>>,
    <<11680, 11686>>, <<11688, 11694>>, <<11696, 11702>>, <<11704, 11710>>,
    <<11712, 11718>>, <<11720, 11726>>, <<11728, 11734>>, <<11736, 11742>>,
    <<11823, 11823>>, <<12293, 12294>>, <<12337, 12341>>, <<12347, 12348>>,
    <<12353, 12438>>, <<12445, 12447>>, <<12449, 12538>>, <<12540, 12543>>,
    <<12549, 12591>>, <<12593, 12686>>, <<12704, 12735>>, <<12784, 12799>>,
    <<13312, 19903>>, <<19968, 42124>>, <<42192, 42237>>, <<42240, 42508>>,
    <<42512, 42527>>, <<42538, 42539>>, <<42560, 42606>>, <<42623, 42653>>,
    <<42656, 42725>>, <<42775, 42783>>, <<42786, 42888>>, <<42891, 42954>>,
    <<42960, 42961>>, <<42963, 42963>>, <<42965, 42969>>, <<42994, 43009>>,
    <<43011, 43013>>, <<43015, 43018>>, <<43020, 43042>>, <<43072, 43123>>,
    <<43138, 43187>>, <<43250, 43255>>, <<43259, 43259>>, <<43261, 43262>>,
    <<43274, 43301>>, <<43312, 43334>>, <<43360, 43388>>, <<43396, 43442>>,
    <<43471, 43471>>, <<43488, 43492>>, <<43494, 43503>>, <<43514, 43518>>,
    <<43520, 43560>>, <<43584, 43586>>, <<43588, 43595>>, <<43616, 43638>>,
    <<43642, 43642>>, <<43646, 43695>>, <<43697, 43697>>, <<43701, 43702>>,
    <<43705, 43709>>, <<43712, 43712>>, <<43714, 43714>>, <<43739, 43741>>,
    <<43744, 43754>>, <<43762, 43764>>, <<43777, 43782>>, <<43785, 43790>>,
    <<43793, 43798>>, <<43808, 43814>>, <<43816, 43822>>, <<43824, 43866>>,
    <<43868, 43881>>, <<43888, 44002>>, <<44032, 55203>>, <<55216, 55238>>,
    <<55243, 55291>>, <<63744, 64109>>, <<64112, 64217>>, <<64256, 64262>>,
    <<64275, 64279>>, <<64285, 64285>>, <<64287, 64296>>, <<64298, 64310>>,
    <<64312, 64316>>, <<64318, 64318>>, <<64320, 64321>>, <<64323, 64324>>,
    <<64326, 64433>>, <<64467, 64829>>, <<64848, 64911>>, <<64914, 64967>>,
    <<65008, 65019>>, <<65136, 65140>>, <<65142, 65276>>, <<65313, 65338>>,
    <<65345, 65370>>, <<65382, 65470>>, <<65474, 65479>>, <<65482, 65487>>,
    <<65490, 65495>>, <<65498, 65500>>, <<65536, 65547>>, <<65549, 65574>>,
    <<65576, 65594>>, <<65596, 65597>>, <<65599, 65613>>, <<65616, 65629>>,
    <<65664, 65786>>, <<66176, 66204>>, <<66208, 66256>>, <<66304, 66335>>,
    <<66349, 66368>>, <<66370, 66377>>, <<66384, 66421>>, <<66432, 66461>>,
    <<66464, 66499>>, <<66504, 66511>>, <<66560, 66717>>, <<66736, 66771>>,
    <<66776, 66811>>, <<66816, 66855>>, <<66864, 66915>>, <<66928, 66938>>,
    <<66940, 66954>>, <<66956, 66962>>, <<66964, 66965>>, <<66967, 66977>>,
    <<66979, 66993>>, <<66995, 67001>>, <<67003, 67004>>, <<67072, 67382>>,
    <<67392, 67413>>, <<67424, 67431>>, <<67456, 67461>>, <<67463, 67504>>,
    <<67506, 67514>>, <<67584, 67589>>, <<67592, 67592>>, <<67594, 67637>>,
    <<67639, 67640>>, <<67644, 67644>>, <<67647, 67669>>, <<67680, 67702>>,
    <<67712, 67742>>, <<67808, 67826>>, <<67828, 67829>>, <<67840, 67861>>,
    <<67872, 67897>>, <<67968, 68023>>, <<68030, 68031>>, <<68096, 68096>>,
    <<68112, 68115>>, <<68117, 68119>>, <<68121, 68149>>, <<68192, 68220>>,
    <<68224, 68252>>, <<68288, 68295>>, <<68297, 68324>>, <<68352, 68405>>,
    <<68416, 68437>>, <<68448, 68466>>, <<68480, 68497>>, <<68608, 68680>>,
    <<68736, 68786>>, <<68800, 68850>>, <<68864, 68899>>, <<69248, 69289>>,
    <<69296, 69297>>, <<69376, 69404>>, <<69415, 69415>>, <<69424, 69445>>,
    <<69488, 69505>>, <<69552, 69572>>, <<69600, 69622>>, <<69635, 69687>>,
    <<69745, 69746>>, <<69749, 69749>>, <<69763, 69807>>, <<69840, 69864>>,
    <<69891, 69926>>, <<69956, 69956>>, <<69959, 69959>>, <<69968, 70002>>,
    <<70006, 70006>>, <<70019, 70066>>, <<70081, 70084>>, <<70106, 70106>>,
    <<70108, 70108>>, <<70144, 70161>>, <<70163, 70187>>, <<70272, 70278>>,
    <<70280, 70280>>, <<70282, 70285>>, <<70287, 70301>>, <<70303, 70312>>,
    <<70320, 70366>>, <<70405, 70412>>, <<70415, 70416>>, <<70419, 70440>>,
    <<70442, 70448>>, <<70450, 70451>>, <<70453, 70457>>, <<70461, 70461>>,
    <<70480, 70480>>, <<70493, 70497>>, <<70656, 70708>>, <<70727, 70730>>,
    <<70751, 70753>>, <<70784, 70831>>, <<70852, 70853>>, <<70855, 70855>>,
    <<71040, 71086>>, <<71128, 71131>>, <<71168, 71215>>, <<71236, 71236>>,
    <<71296, 71338>>, <<71352, 71352>>, <<71424, 71450>>, <<71488, 71494>>,
    <<71680, 71723>>, <<71840, 71903>>, <<71935, 71942>>, <<71945, 71945>>,
    <<71948, 71955>>, <<71957, 71958>>, <<71960, 71983>>, <<71999, 71999>>,
    <<72001, 72001>>, <<72096, 72103>>, <<72106, 72144>>, <<72161, 72161>>,
    <<72163, 72163>>, <<72192, 72192>>, <<72203, 72242>>, <<72250, 72250>>,
    <<72272, 72272>>, <<72284, 72329>>, <<72349, 72349>>, <<72368, 72440>>,
    <<72704, 72712>>, <<72714, 72750>>, <<72768, 72768>>, <<72818, 72847>>,
    <<72960, 72966>>, <<72968, 72969>>, <<72971, 73008>>, <<73030, 73030>>,
    <<73056, 73061>>, <<73063, 73064>>, <<73066, 73097>>, <<73112, 73112>>,
    <<73440, 73458>>, <<73648, 73648>>, <<73728, 74649>>, <<74880, 75075>>,
    <<77712, 77808>>, <<77824, 78894>>, <<82944, 83526>>, <<92160, 92728>>,
    <<92736, 92766>>, <<92784, 92862>>, <<92880, 92909>>, <<92928, 92975>>,
    <<92992, 92995>>, <<93027, 93047>>, <<93053, 93071>>, <<93760, 93823>>,
    <<93952, 94026>>, <<94032, 94032>>, <<94099, 94111>>, <<94176, 94177>>,
    <<94179, 94179>>, <<94208, 100343>>, <<100352, 101589>>,
    <<101632, 101640>>, <<110576, 110579>>, <<110581, 110587>>,
    <<110589, 110590>>, <<110592, 110882>>, <<110928, 110930>>,
    <<110948, 110951>>, <<110960, 111355>>, <<113664, 113770>>,
    <<113776, 113788>>, <<113792, 113800>>, <<113808, 113817>>,
    <<119808, 119892>>, <<119894, 119964>>, <<119966, 119967>>,
    <<119970, 119970>>, <<119973, 119974>>, <<119977, 119980>>,
    <<119982, 119993>>, <<119995, 119995>>, <<119997, 120003>>,
    <<120005, 120069>>, <<120071, 120074>>, <<120077, 120084>>,
    <<120086, 120092>>, <<120094, 120121>>, <<120123, 120126>>,
    <<120128, 120132>>, <<120134, 120134>>, <<120138, 120144>>,
    <<120146, 120485>>, <<120488, 120512>>, <<120514, 120538>>,
    <<120540, 120570>>, <<120572, 120596>>, <<120598, 120628>>,
    <<120630, 120654>>, <<120656, 120686>>, <<120688, 120712>>,
    <<120714, 120744>>, <<120746, 120770>>, <<120772, 120779>>,
    <<122624, 122654>>, <<123136, 123180>>, <<123191, 123197>>,
    <<123214, 123214>>, <<123536, 123565>>, <<123584, 123627>>,
    <<124896, 124902>>, <<124904, 124907>>, <<124909, 124910>>,
    <<124912, 124926>>, <<124928, 125124>>, <<125184, 125251>>,
    <<125259, 125259>>, <<126464, 126467>>, <<126469, 126495>>,
    <<126497, 126498>>, <<126500, 126500>>, <<126503, 126503>>,
    <<126505, 126514>>, <<126516, 126519>>, <<126521, 126521>>,
    <<126523, 126523>>, <<126530, 126530>>, <<126535, 126535>>,
    <<126537, 126537>>, <<126539, 126539>>, <<126541, 126543>>,
    <<126545, 126546>>, <<126548, 126548>>, <<126551, 126551>>,
    <<126553, 126553>>, <<126555, 126555>>, <<126557, 126557>>,
    <<126559, 126559>>, <<126561, 126562>>, <<126564, 126564>>,
    <<126567, 126570>>, <<126572, 126578>>, <<126580, 126583>>,
    <<126585, 126588>>, <<126590, 126590>>, <<126592, 126601>>,
    <<126603, 126619>>, <<126625, 126627>>, <<126629, 126633>>,
    <<126635, 126651>>, <<131072, 173791>>, <<173824, 177976>>,
    <<177984, 178205>>, <<178208, 183969>>, <<183984, 191456>>,
    <<194560, 195101>>, <<196608, 201546>>
  >>

NumberRanges ==
  <<
    <<1632, 1641>>, <<1776, 1785>>, <<1984, 1993>>, <<2406, 2415>>,
    <<2534, 2543>>, <<2548, 2553>>, <<2662, 2671>>, <<2790, 2799>>,
    <<2918, 2927>>, <<2930, 2935>>, <<3046, 3058>>, <<3174, 3183>>,
    <<3192, 3198>>, <<3302, 3311>>, <<3416, 3422>>, <<3430, 3448>>,
    <<3558, 3567>>, <<3664, 3673>>, <<3792, 3801>>, <<3872, 3891>>,
    <<4160, 4169>>, <<4240, 4249>>, <<4969, 4988>>, <<5870, 5872>>,
    <<6112, 6121>>, <<6128, 6137>>, <<6160, 6169>>, <<6470, 6479>>,
    <<6608, 6618>>, <<6784, 6793>>, <<6800, 6809>>, <<6992, 7001>>,
    <<7088, 7097>>, <<7232, 7241>>, <<7248, 7257>>, <<8304, 8304>>,
    <<8308, 8313>>, <<8320, 8329>>, <<8528, 8578>>, <<8581, 8585>>,
    <<9312, 9371>>, <<9450, 9471>>, <<10102, 10131>>, <<11517, 11517>>,
    <<12295, 12295>>, <<12321, 12329>>, <<12344, 12346>>, <<12690, 12693>>,
    <<12832, 12841>>, <<12872, 12879>>, <<12881, 12895>>, <<12928, 12937>>,
    <<12977, 12991>>, <<42528, 42537>>, <<42726, 42735>>, <<43056, 43061>>,
    <<43216, 43225>>, <<43264, 43273>>, <<43472, 43481>>, <<43504, 43513>>,
    <<43600, 43609>>, <<44016, 44025>>, <<65296, 65305>>, <<65799, 65843>>,
    <<65856, 65912>>, <<65930, 65931>>, <<66273, 66299>>, <<66336, 66339>>,
    <<66369, 66369>>, <<66378, 66378>>, <<66513, 66517>>, <<66720, 66729>>,
    <<67672, 67679>>, <<67705, 67711>>, <<67751, 67759>>, <<67835, 67839>>,
    <<67862, 67867>>, <<68028, 68029>>, <<68032, 68047>>, <<68050, 68095>>,
    <<68160, 68168>>, <<68221, 68222>>, <<68253, 68255>>, <<68331, 68335>>,
    <<68440, 68447>>, <<68472, 68479>>, <<68521, 68527>>, <<68858, 68863>>,
    <<68912, 68921>>, <<69216, 69246>>, <<69405, 69414>>, <<69457, 69460>>,
    <<69573, 69579>>, <<69714, 69743>>, <<69872, 69881>>, <<69942, 69951>>,
    <<70096, 70105>>, <<70113, 70132>>, <<70384, 70393>>, <<70736, 70745>>,
    <<70864, 70873>>, <<71248, 71257>>, <<71360, 71369>>, <<71472, 71483>>,
    <<71904, 71922>>, <<72016, 72025>>, <<72784, 72812>>, <<73040, 73049>>,
    <<73120, 73129>>, <<73664, 73684>>, <<74752, 74862>>, <<92768, 92777>>,
    <<92864, 92873>>, <<93008, 93017>>, <<93019, 93025>>, <<93824, 93846>>,
    <<119520, 119539>>, <<119648, 119672>>, <<120782, 120831>>,
    <<123200, 123209>>, <<123632, 123641>>, <<125127, 125135>>,
    <<125264, 125273>>, <<126065, 126123>>, <<126125, 126127>>,
    <<126129, 126132>>, <<126209, 126253>>, <<126255, 126269>>,
    <<127232, 127244>>, <<130032, 130041>>
  >>

Letters ==
    {"A", "B", "C", "D", "E", "F", "G", "H", "I", "J", "K", "L", "M", "N",
     "O", "P", "Q", "R", "S", "T", "U", "V", "W", "X", "Y", "Z", "a", "b",
     "c", "d", "e", "f", "g", "h", "i", "j", "k", "l", "m", "n", "o", "p",
     "q", "r", "s", "t", "u", "v", "w", "x", "y", "z", "ª", "µ", "º", "À",
     "Á", "Â", "Ã", "Ä", "Å", "Æ", "Ç", "È", "É", "Ê", "Ë", "Ì", "Í", "Î",
     "Ï", "Ð", "Ñ", "Ò", "Ó", "Ô", "Õ", "Ö", "Ø", "Ù", "Ú", "Û", "Ü", "Ý",
     "Þ", "ß", "à", "á", "â", "ã", "ä", "å", "æ", "ç", "è", "é", "ê", "ë",
     "ì", "í", "î", "ï", "ð", "ñ", "ò", "ó", "ô", "õ", "ö", "ø", "ù", "ú",
     "û", "ü", "ý", "þ", "ÿ"}
      \cup {c \in STRING : IsCodeToken(c) /\ InRanges(CodePoint(c), LetterRanges)}
Digits ==
    {"0", "1", "2", "3", "4", "5", "6", "7", "8", "9", "²", "³", "¹", "¼",
     "½", "¾"}
      \cup {c \in STRING : IsCodeToken(c) /\ InRanges(CodePoint(c), NumberRanges)}

\* The character class [\w\s\-\.\(\)] of the second re.sub.
AllowedChar(c) ==
    c \in Letters \cup Digits \cup {"_"} \cup WhiteSpace \cup {"-", ".", "(", ")"}

TitleLimit == 50
IdPrefix == 8

\* re.sub(r'#.*$', '', title): '.' does not match a newline and '$' matches at
\* the end of the string or just before a newline that ends it, so the cut
\* starts at the first '#' that only a final newline can follow.
HashStarts(s) ==
    {i \in 1..Len(s) :
        /\ s[i] = "#"
        /\ \A j \in (i + 1)..Len(s) : s[j] = "\n" => j = Len(s)}

\* Faulty variant: the hashtag and what follows it are kept.
HashCut_Keep(s) == s

HashCut(s) ==
    IF HashStarts(s) = {} THEN s
    ELSE LET i == CHOOSE k \in HashStarts(s) : \A m \in HashStarts(s) : k <= m
         IN SubSeq(s, 1, i - 1)
              \o (IF Len(s) > i /\ s[Len(s)] = "\n" THEN <<"\n">> ELSE <<>>)

\* ' '.join(s.split()): white space runs become one blank, none at the ends.
RECURSIVE JoinSplit(_)
JoinSplit(s) ==
    LET t == LStrip(s)
    IN IF t = <<>> THEN <<>>
       ELSE IF Head(t) \in WhiteSpace THEN JoinSplit(Tail(t))
       ELSE IF Len(t) > 1 /\ t[2] \in WhiteSpace
            THEN (IF LStrip(Tail(t)) = <<>> THEN <<Head(t)>>
                  ELSE <<Head(t), " ">> \o JoinSplit(Tail(t)))
            ELSE <<Head(t)>> \o JoinSplit(Tail(t))

\* Lines 290-294 of the packaged window.
clean_title(title) ==
    LET a == HashCut(title)
        b == SelectSeq(a, AllowedChar)
    IN Prefix(Strip(JoinSplit(b)), TitleLimit)

\* Lines 297-301: the fallback name, then the file name.
safe_filename(title, download_id) ==
    LET c == clean_title(title)
    IN (IF c = <<>> THEN <<"a", "u", "d", "i", "o", "_">> \o Prefix(download_id, IdPrefix)
        ELSE c) \o <<".mp3">>

\* app.py line 358: '/', ':' and '\' become '_'.
safe_filename_app(title) ==
    [i \in 1..Len(title) |->
        IF title[i] \in {"/", ":", "\\"} THEN "_" ELSE title[i]] \o <<".mp3">>

\* info.get('title', 'audio')
TitleOf(t) == IF t = NoTitle THEN <<"a", "u", "d", "i", "o">> ELSE t

\* uuid.uuid4().hex of the r-th worker: distinct per worker.
Uuid(r) == <<ToString(r), "c", "0", "f", "f", "e", "e", "0", "0", "d">>

\* -------------------------------------------------------------------- paths
\* A path is a sequence of components, each a text.
TempDir == << <<"temp">> >>
\* Path.home() / "Downloads": where app.py's destination field starts and
\* where the packaged window proposes to save a transcript.
DestDir == << <<"Downloads">> >>
\* The folders the user can pick in app.py's folder dialog.
Folders == {DestDir, << <<"Music">> >>}
FfmpegDirPath == << <<"ffmpeg">> >>

\* str(path): the components with a separator between them.
RECURSIVE PathText(_)
PathText(p) ==
    IF p = <<>> THEN <<>>
    ELSE IF Len(p) = 1 THEN Head(p)
    ELSE Head(p) \o <<"/">> \o PathText(Tail(p))

Exists(files, p) == \E f \in files : f.path = p
WriteFile(files, p, r) == {f \in files : f.path # p} \cup {[path |-> p, run |-> r]}
\* Faulty variant: every file of the directory of p is removed.
RemoveFile_Dir(files, p) ==
    {f \in files : SubSeq(f.path, 1, Len(f.path) - 1) # SubSeq(p, 1, Len(p) - 1)}

\* Faulty variant: the file is left where it is.
RemoveFile_Keep(files, p) == files

\* os.remove(p)
RemoveFile(files, p) == {f \in files : f.path # p}
\* shutil.rmtree(dir): everything below dir
RemoveTree(files, d) ==
    {f \in files : ~(Len(f.path) > Len(d) /\ SubSeq(f.path, 1, Len(d)) = d)}

\* ---------------------------------------------------- floating point values
\* A float that is not negative: its integer part and the binary digits
\* after the point, without trailing zeros.  A double keeps Precision
\* significant binary digits.  Digits are worked on LimbBits at a time.
Precision == 53
LimbBits == 4
Base == 2 ^ LimbBits
\* Enough limbs for the digits of a quotient below one: the leading zeros
\* (fewer than the digits of a divisor, at most 27), Precision digits and one.
FracLimbs == 21

Float(n) == [int |-> n, frac |-> <<>>]

RECURSIVE BitLen(_)
BitLen(n) == IF n = 0 THEN 0 ELSE 1 + BitLen(n \div 2)

\* The positions of the digits 1.
Ones(bits) == {i \in DOMAIN bits : bits[i] = 1}
Highest(S) == CHOOSE i \in S : \A j \in S : j <= i
Lowest(S) == CHOOSE i \in S : \A j \in S : i <= j

\* Without the trailing zeros.
Trim(bits) == IF Ones(bits) = {} THEN <<>> ELSE SubSeq(bits, 1, Highest(Ones(bits)))

LeadZeros(bits) == IF Ones(bits) = {} THEN Len(bits) ELSE Lowest(Ones(bits)) - 1

\* bits plus one unit in the last place; the carry out is dropped.
Increment(bits) ==
    LET zeros == DOMAIN bits \ Ones(bits)
    IN [i \in DOMAIN bits |->
           IF zeros = {} \/ i > Highest(zeros) THEN 0
           ELSE IF i = Highest(zeros) THEN 1
           ELSE bits[i]]

\* The nearest double to the exact value x, ties to the even digit.
RoundDouble(x) ==
    LET keep == IF x.int > 0 THEN Precision - BitLen(x.int)
                ELSE LeadZeros(x.frac) + Precision
    IN IF Len(x.frac) <= keep THEN x
       ELSE LET kept == SubSeq(x.frac, 1, keep)
                guard == x.frac[keep + 1]
                sticky == \E j \in (keep + 2)..Len(x.frac) : x.frac[j] = 1
                odd == IF keep = 0 THEN x.int % 2 = 1 ELSE kept[keep] = 1
                up == guard = 1 /\ (sticky \/ odd)
                carry == IF Ones(kept) = DOMAIN kept THEN 1 ELSE 0
            IN IF up THEN [int |-> x.int + carry, frac |-> Trim(Increment(kept))]
               ELSE [int |-> x.int, frac |-> Trim(kept)]

\* The binary digits of limbs, LimbBits for each, and back (the last limb
\* is filled up with zeros).
FromLimbs(limbs) ==
    [i \in 1..(LimbBits * Len(limbs)) |->
        (limbs[((i - 1) \div LimbBits) + 1]
            \div (2 ^ (LimbBits - 1 - ((i - 1) % LimbBits)))) % 2]

BitAt(bits, i) == IF i \in DOMAIN bits THEN bits[i] ELSE 0

ToLimbs(bits) ==
    [j \in 1..((Len(bits) + LimbBits - 1) \div LimbBits) |->
        8 * BitAt(bits, 4 * j - 3) + 4 * BitAt(bits, 4 * j - 2)
            + 2 * BitAt(bits, 4 * j - 1) + BitAt(bits, 4 * j)]

\* Long division: the first n limbs of rem / b after the point, then 1 when
\* what follows them is not zero and 0 when it is.
RECURSIVE DivLimbs(_, _, _)
DivLimbs(rem, b, n) ==
    IF n = 0 THEN <<IF rem = 0 THEN 0 ELSE 1>>
    ELSE <<(rem * Base) \div b>> \o DivLimbs((rem * Base) % b, b, n - 1)

\* a / b of two ints: the correctly rounded quotient.
Quotient(a, b) ==
    LET d == DivLimbs(a % b, b, FracLimbs)
    IN RoundDouble([int |-> a \div b,
                    frac |-> Trim(FromLimbs(SubSeq(d, 1, FracLimbs))
                                     \o <<d[FracLimbs + 1]>>)])

\* The limbs times c, plus carry in the last place: the carry out of the
\* first limb, then the limbs.
RECURSIVE MulLimbs(_, _, _)
MulLimbs(limbs, c, carry) ==
    IF limbs = <<>> THEN <<carry>>
    ELSE LET rest == MulLimbs(Tail(limbs), c, carry)
             t == Head(limbs) * c + Head(rest)
         IN <<t \div Base, t % Base>> \o Tail(rest)

\* x * c for a small whole number c, exactly.
Product(x, c) ==
    LET m == MulLimbs(ToLimbs(x.frac), c, 0)
    IN [int |-> x.int * c + Head(m), frac |-> Trim(FromLimbs(Tail(m)))]

\* x * c as the double multiplication gives it.
Times(x, c) == RoundDouble(Product(x, c))

\* n / 1024 / 1024 of an int: both divisions are exact.
Megabytes(n) ==
    [int |-> n \div (2 ^ 20),
     frac |-> Trim([i \in 1..20 |-> ((n % (2 ^ 20)) \div (2 ^ (20 - i))) % 2])]

\* f"{x:.1f}": the nearest number of tenths to the exact value, ties to
\* the even one.
Format1(x) ==
    LET y == Product(x, 10)
        more == IF y.frac = <<>> \/ Head(y.frac) = 0 THEN 0
                ELSE IF Len(y.frac) = 1 THEN y.int % 2
                ELSE 1
        n == y.int + more
    IN <<ToString(n \div 10), ".", ToString(n % 10)>>

\* x <= y
FloatLeq(x, y) ==
    \/ x.int < y.int
    \/ /\ x.int = y.int
       /\ \/ x.frac = y.frac
          \/ \E i \in DOMAIN y.frac :
                /\ y.frac[i] = 1
                /\ BitAt(x.frac, i) = 0
                /\ \A j \in 1..(i - 1) : BitAt(x.frac, j) = y.frac[j]

\* ------------------------------------------------------------ progress hook
\* The value of a key of d that holds a byte count: a number, or None.
NoBytes == [has |-> FALSE, val |-> 0]
Bytes(n) == [has |-> TRUE, val |-> n]

\* What the downloader can pass to a progress hook (a record has the keys
\* of the dict): downloaded_bytes is a number, total_bytes a number or None,
\* and either key can be missing.
HookReports ==
    {[status |-> "downloading", downloaded_bytes |-> 50, total_bytes |-> Bytes(100)],
     [status |-> "downloading", downloaded_bytes |-> 100, total_bytes |-> Bytes(100)],
     [status |-> "downloading", downloaded_bytes |-> 1, total_bytes |-> Bytes(3)],
     [status |-> "downloading", downloaded_bytes |-> 50, total_bytes |-> Bytes(0)],
     [status |-> "downloading", downloaded_bytes |-> 50],
     [status |-> "downloading", downloaded_bytes |-> 50, total_bytes |-> NoBytes],
     [status |-> "finished", downloaded_bytes |-> 100, total_bytes |-> Bytes(100)]}

\* The report of a completed download.
FinishedReport ==
    [status |-> "finished", downloaded_bytes |-> 100, total_bytes |-> Bytes(100)]

\* The exception the hook raises on d, or "none": None > 0 is a TypeError
\* and d['downloaded_bytes'] of a missing key a KeyError.
hook_error(d) ==
    IF d.status = "downloading" /\ "total_bytes" \in DOMAIN d
    THEN IF ~d.total_bytes.has
         THEN "'>' not supported between instances of 'NoneType' and 'int'"
         ELSE IF d.total_bytes.val > 0 /\ "downloaded_bytes" \notin DOMAIN d
         THEN "'downloaded_bytes'"
         ELSE "none"
    ELSE "none"

\* Whether the first branch of the hook is taken (lines 240, app.py 312).
HasTotal(d) == "total_bytes" \in DOMAIN d /\ d.total_bytes.has /\ d.total_bytes.val > 0

\* f"Downloading: {n / 1024 / 1024:.1f} MB"
MegabytesText(n) == <<"Downloading: ">> \o Format1(Megabytes(n)) \o <<" MB">>

\* Lines 238-248: the events the hook emits on d when it does not raise.
progress_hook(r, d) ==
    IF hook_error(d) # "none" THEN <<>>
    ELSE IF d.status = "downloading"
    THEN IF HasTotal(d)
         THEN LET percent == Times(Quotient(d.downloaded_bytes, d.total_bytes.val), 50)
              IN <<ProgressFloat(r, percent),
                   Status(r, <<"Downloading: ">> \o Format1(Times(percent, 2)) \o <<"%">>)>>
         ELSE IF "downloaded_bytes" \in DOMAIN d
         THEN <<Status(r, MegabytesText(d.downloaded_bytes))>>
         ELSE <<>>
    ELSE IF d.status = "finished"
    THEN <<Status(r, <<"Download completed, extracting audio...">>), Progress(r, 50)>>
    ELSE <<>>

\* app.py lines 310-320: the same hook on a 0..100 scale.
progress_hook_app(r, d) ==
    IF hook_error(d) # "none" THEN <<>>
    ELSE IF d.status = "downloading"
    THEN IF HasTotal(d)
         THEN LET percent == Times(Quotient(d.downloaded_bytes, d.total_bytes.val), 100)
              IN <<ProgressFloat(r, percent),
                   Status(r, <<"Downloading: ">> \o Format1(percent) \o <<"%">>)>>
         ELSE IF "downloaded_bytes" \in DOMAIN d
         THEN <<Status(r, MegabytesText(d.downloaded_bytes))>>
         ELSE <<>>
    ELSE IF d.status = "finished"
    THEN <<Status(r, <<"Download completed, extracting audio...">>), Progress(r, 100)>>
    ELSE <<>>

\* ------------------------------------------------------------- provisioning
\* The two executables under the platform's file names.
RequiredTools(sys) ==
    IF sys = "Windows" THEN {"ffmpeg.exe", "ffprobe.exe"} ELSE {"ffmpeg", "ffprobe"}

\* What an archive can hold: the platform's executables and another file.
OtherMember == "LICENSE"
MemberNames(sys) == RequiredTools(sys) \cup {OtherMember}

\* The sequences of distinct elements of S.
Orders(S) ==
    {m \in UNION {[1..n -> S] : n \in 0..Cardinality(S)} :
        \A i, j \in DOMAIN m : i # j => m[i] # m[j]}

\* One download of an archive.  fetch says how far it gets: requests.get
\* raises ("get_raises"), iter_content raises after the file was opened
\* ("stream_breaks"), the body is written and is no zip archive ("not_zip"),
\* or it is one ("zip").  members are the names of namelist() in order and
\* damaged the index of the member whose data fail the CRC check, 0 for none.
Download(fetch, members, damaged) ==
    [fetch |-> fetch, members |-> members, damaged |-> damaged]
NoDownload == Download("none", <<>>, 0)

Downloads(sys) ==
    {Download(f, <<>>, 0) : f \in {"get_raises", "stream_breaks", "not_zip"}}
      \cup {Download("zip", x[1], x[2]) :
              x \in {y \in Orders(MemberNames(sys)) \X (0..Cardinality(MemberNames(sys))) :
                        y[2] <= Len(y[1])}}

\* A download that ran to its end without an exception of the archive.
Sound(d) == d.fetch = "zip" /\ d.damaged = 0

\* What the network, the archives and the system tool do during one call:
\* the result of the probe (Linux) and the downloads in the order of the
\* calls of requests.get.
Outcome(probe, first, second) == [probe |-> probe, first |-> first, second |-> second]

\* get_or_download_ffmpeg: the returned location, the events emitted, the
\* managed directory afterwards, the network requests and probes made.
ProvisionResult(ret, ev, dir, net, probes) ==
    [ret |-> ret, events |-> ev, dir |-> dir, net |-> net, probes |-> probes]

\* The folder of the Windows archive that holds its members.
ArchiveFolder == "b"

\* str(e) of the BadZipFile raised while a damaged member is copied.
BadCrc(member) == <<"Bad CRC-32 for file '">> \o member \o <<"'">>

\* str(e) of the FileNotFoundError os.chmod raises for a missing binary.
NoSuchFile(name) ==
    <<"[Errno 2] No such file or directory: '">>
        \o PathText(FfmpegDirPath \o <<<<name>>>>) \o <<"'">>

\* The names among the first n members of an archive.
Names(members, n) == {members[i] : i \in 1..n}

\* except Exception as e: (lines 364-366 and 396-398)
download_failed(r, e) == <<Status(r, <<"Error downloading FFmpeg: ">> \o e)>>

\* Lines 342-362 and what follows them: requests.get, the archive written to
\* ffmpeg.zip, of which the members whose names end in ffmpeg.exe or
\* ffprobe.exe are copied in the order of the archive (a member that is not
\* copied is not read), os.remove, the status.
download_ffmpeg_windows(r, dir, d) ==
    LET tools == RequiredTools("Windows")
        raises == d.damaged > 0 /\ d.members[d.damaged] \in tools
    IN CASE d.fetch = "get_raises" ->
              ProvisionResult(None, download_failed(r, <<"ConnectionError">>), dir, 1, 0)
         [] d.fetch = "stream_breaks" ->
              ProvisionResult(None, download_failed(r, <<"ConnectionError">>),
                              dir \cup {"ffmpeg.zip"}, 1, 0)
         [] d.fetch = "not_zip" ->
              ProvisionResult(None, download_failed(r, <<"File is not a zip file">>),
                              dir \cup {"ffmpeg.zip"}, 1, 0)
         [] d.fetch = "zip" /\ raises ->
              ProvisionResult(None,
                  download_failed(r, BadCrc(<<ArchiveFolder, "/", d.members[d.damaged]>>)),
                  dir \cup {"ffmpeg.zip"} \cup (Names(d.members, d.damaged) \cap tools),
                  1, 0)
         [] OTHER ->
              ProvisionResult(Some(FfmpegDirPath),
                  <<Status(r, <<"FFmpeg installed successfully">>)>>,
                  (dir \cup (Names(d.members, Len(d.members)) \cap tools))
                      \ {"ffmpeg.zip"},
                  1, 0)

\* Lines 327-366: nothing is done when both executables are there; the
\* status of line 339 and the download otherwise.
get_or_download_ffmpeg_windows(r, dir, o) ==
    IF {"ffmpeg.exe", "ffprobe.exe"} \subseteq dir
    THEN ProvisionResult(Some(FfmpegDirPath), <<>>, dir, 0, 0)
    ELSE LET res == download_ffmpeg_windows(r, dir, o.first)
         IN ProvisionResult(res.ret,
                <<Status(r, <<"Downloading FFmpeg for Windows...">>)>> \o res.events,
                res.dir, res.net, 0)

\* download_and_extract_macos_binary (lines 411-426): the directory after
\* the call and str(e) of what it raised, <<>> if it returned.  extractall
\* puts every member into the directory, up to a damaged one.
download_and_extract_macos_binary(dir, d, binary_name) ==
    LET zip_path == IF binary_name = "ffmpeg" THEN "ffmpeg.zip" ELSE "ffprobe.zip"
    IN CASE d.fetch = "get_raises" -> [dir |-> dir, raised |-> <<"ConnectionError">>]
         [] d.fetch = "stream_breaks" ->
              [dir |-> dir \cup {zip_path}, raised |-> <<"ConnectionError">>]
         [] d.fetch = "not_zip" ->
              [dir |-> dir \cup {zip_path}, raised |-> <<"File is not a zip file">>]
         [] d.fetch = "zip" /\ d.damaged > 0 ->
              [dir |-> dir \cup {zip_path} \cup Names(d.members, d.damaged),
               raised |-> BadCrc(<<d.members[d.damaged]>>)]
         [] OTHER ->
              [dir |-> (dir \cup Names(d.members, Len(d.members))) \ {zip_path},
               raised |-> <<>>]

\* Lines 386-394 after the first archive: download_and_extract_macos_binary
\* for ffprobe, then os.chmod of ffmpeg and of ffprobe, which raises when the
\* binary is not there, then the status.
download_ffprobe_macos(r, dir, d) ==
    LET b == download_and_extract_macos_binary(dir, d, "ffprobe")
    IN IF b.raised # <<>> THEN ProvisionResult(None, download_failed(r, b.raised), b.dir, 1, 0)
       ELSE IF "ffmpeg" \notin b.dir
       THEN ProvisionResult(None, download_failed(r, NoSuchFile("ffmpeg")), b.dir, 1, 0)
       ELSE IF "ffprobe" \notin b.dir
       THEN ProvisionResult(None, download_failed(r, NoSuchFile("ffprobe")), b.dir, 1, 0)
       ELSE ProvisionResult(Some(FfmpegDirPath),
                <<Status(r, <<"FFmpeg installed successfully">>)>>, b.dir, 1, 0)

\* Lines 368-398: nothing is done when both binaries are there; the status
\* of line 381, download_and_extract_macos_binary for ffmpeg and what
\* follows it otherwise.
get_or_download_ffmpeg_darwin(r, dir, o) ==
    IF {"ffmpeg", "ffprobe"} \subseteq dir
    THEN ProvisionResult(Some(FfmpegDirPath), <<>>, dir, 0, 0)
    ELSE LET start == <<Status(r, <<"Downloading FFmpeg for macOS...">>)>>
             a == download_and_extract_macos_binary(dir, o.first, "ffmpeg")
             rest == download_ffprobe_macos(r, a.dir, o.second)
         IN IF a.raised # <<>>
            THEN ProvisionResult(None, start \o download_failed(r, a.raised), a.dir, 1, 0)
            ELSE ProvisionResult(rest.ret, start \o rest.events, rest.dir, 1 + rest.net, 0)

\* Faulty variant: after a failed probe the binaries are downloaded.
get_or_download_ffmpeg_linux_Download(r, dir, o) ==
    IF o.probe
    THEN ProvisionResult(None, <<>>, dir, 0, 1)
    ELSE ProvisionResult(Some(FfmpegDirPath),
             <<Status(r, <<"Downloading FFmpeg for Linux...">>)>>,
             dir \cup {"ffmpeg", "ffprobe"}, 2, 1)

\* Faulty variant: the failed probe is reported as a run error.
get_or_download_ffmpeg_linux_Error(r, dir, o) ==
    IF o.probe
    THEN ProvisionResult(None, <<>>, dir, 0, 1)
    ELSE ProvisionResult(None, <<Error(r, <<"FFmpeg not found on system.">>)>>, dir, 0, 1)

\* Lines 400-407: ffmpeg -version runs (o.probe) or raises.
get_or_download_ffmpeg_linux(r, dir, o) ==
    IF o.probe
    THEN ProvisionResult(None, <<>>, dir, 0, 1)
    ELSE ProvisionResult(None,
             <<Status(r, <<"FFmpeg not found on system. Please install FFmpeg using your package manager.">>)>>,
             dir, 0, 1)

get_or_download_ffmpeg(r, sys, dir, o) ==
    CASE sys = "Windows" -> get_or_download_ffmpeg_windows(r, dir, o)
      [] sys = "Darwin" -> get_or_download_ffmpeg_darwin(r, dir, o)
      [] sys = "Linux" -> get_or_download_ffmpeg_linux(r, dir, o)
      [] OTHER -> ProvisionResult(None, <<>>, dir, 0, 0)

\* The outcomes that differ on a platform: no download is made when both
\* executables are there, and the second download of macOS only after a
\* first that returned.
OutcomesOn(sys, dir) ==
    CASE sys \in {"Windows", "Darwin"} /\ RequiredTools(sys) \subseteq dir ->
            {Outcome(FALSE, NoDownload, NoDownload)}
      [] sys = "Windows" -> {Outcome(FALSE, d, NoDownload) : d \in Downloads("Windows")}
      [] sys = "Darwin" ->
            {Outcome(FALSE, d, NoDownload) : d \in {e \in Downloads("Darwin") : ~Sound(e)}}
              \cup {Outcome(FALSE, x[1], x[2]) :
                      x \in {e \in Downloads("Darwin") : Sound(e)} \X Downloads("Darwin")}
      [] sys = "Linux" -> {Outcome(p, NoDownload, NoDownload) : p \in BOOLEAN}
      [] OTHER -> {Outcome(FALSE, NoDownload, NoDownload)}

\* Whether an exception is raised inside the provisioner.
ProvisionRaises(sys, dir, o) ==
    CASE sys \in {"Windows", "Darwin"} ->
            /\ ~(RequiredTools(sys) \subseteq dir)
            /\ get_or_download_ffmpeg(0, sys, dir, o).ret = None
      [] sys = "Linux" -> ~o.probe
      [] OTHER -> FALSE

\* -------------------------------------------------------------- transcriber
\* The texts of the first n segments: SegmentTexts taken in turn.
SegmentList == <<<<"Hello">>, <<"world.">>, <<" ", "again">>>>
SegmentAt(i) == SegmentList[((i - 1) % Len(SegmentList)) + 1]

\* Faulty variant: each segment is put in front of the text so far.
RECURSIVE Accumulate_Reversed(_)
Accumulate_Reversed(n) ==
    IF n = 0 THEN <<>> ELSE SegmentAt(n) \o <<" ">> \o Accumulate_Reversed(n - 1)

\* transcript += f"{segment.text} " for segments 1..n
RECURSIVE Accumulate(_)
Accumulate(n) ==
    IF n = 0 THEN <<>> ELSE Accumulate(n - 1) \o SegmentAt(n) \o <<" ">>

\* Lines 471-476: the events of segment number count.
SegmentEvents(r, count) ==
    IF count % 5 = 0
    THEN LET v == 75 + (IF count < 100 THEN count ELSE 100) \div 5
             progress_value == IF v > 95 THEN 95 ELSE v
         IN <<Progress(r, progress_value),
              Status(r, <<"Transcribing: ", ToString(count), " segments processed">>)>>
    ELSE <<>>

\* model_size = self.model_selector.text().strip() or "small"
model_size(text) == IF Strip(text) = <<>> THEN <<"small">> ELSE Strip(text)

\* --------------------------------------------------------------------- init
\* What a collaborator call inside transcribe_audio's try block can do.
CallOutcomes == {"ok", "Exception", "ImportError"}

\* The steps of extract_audio that can fail: mkdir of the run's directory
\* (app.py), extract_info (it raises, or leaves no .mp3), copy2, os.remove or
\* rmtree.
Faults == {"mkdir", "fetch", "copy", "remove"}

NoLocals ==
    [url |-> <<>>, destination_folder |-> <<>>, ffmpeg_path |-> None,
     download_id |-> <<>>, hooks |-> 0, title |-> <<>>, mp3_file |-> <<>>,
     destination_path |-> <<>>,
     transcript |-> <<>>, depth |-> 0, model_size |-> <<>>, segment_count |-> 0]

\* History of a run: the calls made and what the collaborators did.
NoCalls ==
    [provision |-> 0, net |-> 0, probes |-> 0, download |-> 0,
     transcribe |-> 0, installs |-> 0,
     segments |-> -1,             \* segments a completed transcription consumed
     provision_failed |-> FALSE,  \* the provisioner caught an exception
     reports |-> <<>>,            \* what the downloader passed to the hook
     fetch |-> "none",            \* "raised", "no_file" or "ok"
     hook_error |-> "none",       \* the text of the exception the hook raised
     mkdir_raised |-> FALSE,      \* app.py: download_dir.mkdir raised
     title_raised |-> FALSE,      \* re.sub or str.replace raised on the title
     copy_raised |-> FALSE,
     transcription_failed |-> FALSE,  \* transcribe_audio returned an error text
     retried_late |-> FALSE,      \* an ImportError after the import statement
     remove_raised |-> FALSE]

NoRequest == [url |-> <<>>, model |-> <<>>, transcribe |-> TRUE]

\* What an earlier launch can have left in the managed ffmpeg directory
\* (mkdir(exist_ok=True) keeps it): each executable, and the archive of a
\* download that did not end.
Kept == {"ffmpeg", "ffprobe", "archive"}
KeptName(sys, k) ==
    CASE k = "archive" -> "ffmpeg.zip"
      [] sys = "Windows" -> (IF k = "ffmpeg" THEN "ffmpeg.exe" ELSE "ffprobe.exe")
      [] OTHER -> k

\* Files an earlier launch (run 0) left behind: in temp the working file of
\* a run that failed after its download and a final file of the packaged
\* window, in Downloads a final file of app.py.
OldWorkingFile == [path |-> TempDir \o <<Uuid(0) \o <<".mp3">>>>, run |-> 0]
OldFinalFile == [path |-> TempDir \o <<<<"a", ".mp3">>>>, run |-> 0]
OldFinalFile_app == [path |-> DestDir \o <<<<"a", ".mp3">>>>, run |-> 0]

\* The state after construction (__init__ and setup_ui), for an environment e.
Constructed(e) ==
    /\ env = e
    /\ variant \in e.variants
    /\ system \in e.systems
    /\ url_input = <<>>
    /\ model_selector = <<"small">>
    /\ transcribe_checkbox = TRUE
    /\ extract_button = TRUE
    /\ copy_button = FALSE
    /\ save_button = FALSE
    /\ progress_bar = 0
    /\ transcript_text = <<>>
    /\ current_audio_file = None
    /\ current_transcript = None
    /\ dialog = "none"
    /\ parked = <<>>
    /\ dest_path = DestDir
    /\ status_bar = <<"Ready">>
    /\ clipboard = None
    /\ explorer = None
    /\ running = TRUE
    /\ nruns = 0
    /\ pc = [r \in Runs |-> "idle"]
    /\ loc = [r \in Runs |-> NoLocals]
    /\ signals = <<>>
    /\ fs \in e.disk
    /\ \E kept \in e.kept : ffmpeg_dir = {KeptName(system, k) : k \in kept}
    /\ emitted = [r \in Runs |-> <<>>]
    /\ request = [r \in Runs |-> NoRequest]
    /\ calls = [r \in Runs |-> NoCalls]

\* The smallest environment: one run on Linux of a source titled '#' whose
\* download reports its end; the library is there or is missing and cannot
\* be installed; the engine yields no segment; no step of extract_audio
\* fails; the user can type one URL and one model name and pick one folder;
\* earlier launches left nothing.
EnvBase ==
    [urls |-> {<<"u">>}, models |-> {<<" ", "tiny", " ">>}, folders |-> {DestDir},
     runs |-> 1, hooks |-> 1, reports |-> {FinishedReport},
     titles |-> {<<"#">>}, segments |-> {0},
     imports |-> {"ok", "ImportError"}, outcomes |-> {"ok"},
     faults |-> {}, installs |-> {FALSE},
     variants |-> Variants, systems |-> {"Linux"},
     kept |-> {{}}, disk |-> {{}}]

\* One run on Linux with every outcome of every step after provisioning;
\* an install of the library never succeeds.
EnvSpec ==
    [EnvBase EXCEPT !.reports = HookReports, !.titles = {<<"#">>, NullTitle},
                    !.segments = {0, MaxSegments},
                    !.imports = CallOutcomes, !.outcomes = CallOutcomes,
                    !.faults = Faults]

Init == Constructed(EnvSpec)

\* One run on every platform with every outcome of provisioning, over what
\* an earlier launch left in the managed directory: nothing, one tool, both
\* tools, both tools and an archive.
EnvProvision ==
    [EnvBase EXCEPT !.systems = Systems,
                    !.kept = {{}, {"ffmpeg"}, {"ffmpeg", "ffprobe"}, Kept}]

InitProvision == Constructed(EnvProvision)

\* A report whose byte count exceeds the announced total.
Overshoot ==
    [status |-> "downloading", downloaded_bytes |-> 150, total_bytes |-> Bytes(100)]

\* The reports the hook returns from, a total of 0 left to the report
\* without a total (the hook takes the same branch), and one above its total.
FetchReports ==
    {d \in HookReports :
        /\ hook_error(d) = "none"
        /\ "total_bytes" \in DOMAIN d => d.total_bytes.val > 0} \cup {Overshoot}

\* One run on Linux with MaxHooks hook calls, each a report the hook returns
\* from; the engine yields one segment.
EnvFetch ==
    [EnvBase EXCEPT !.hooks = MaxHooks, !.reports = FetchReports, !.segments = {1}]

InitFetch == Constructed(EnvFetch)

\* One run on Linux while the user edits every field.
EnvUser ==
    [EnvBase EXCEPT !.urls = UrlTexts, !.models = ModelTexts, !.folders = Folders]

InitUser == Constructed(EnvUser)

\* MaxRuns runs of the packaged window on Linux, one after the other, of
\* sources with the same title or with the identifier of the first run for
\* a title; the removal of the working file can fail; an earlier launch
\* left a final file of that title.
EnvRuns ==
    [EnvBase EXCEPT !.runs = MaxRuns, !.titles = {<<"a">>, Uuid(1)},
                    !.faults = {"remove"}, !.variants = {"src"},
                    !.disk = {{OldFinalFile}}]

InitRuns == Constructed(EnvRuns)

\* One run on Linux with every failure of every step of extract_audio, an
\* import that fails either way and an install that succeeds or fails,
\* under fair scheduling.
EnvLive ==
    [EnvBase EXCEPT !.imports = CallOutcomes, !.outcomes = {"ok", "Exception"},
                    !.faults = Faults, !.installs = BOOLEAN]

InitLive == Constructed(EnvLive)

\* One run on Linux whose transcriber fails in every way: the import, the
\* loading of the model or the decoding raises, the library is missing and
\* the install succeeds or fails; the removal of the working file can fail.
EnvTranscribe ==
    [EnvBase EXCEPT !.imports = CallOutcomes, !.outcomes = {"ok", "Exception"},
                    !.faults = {"remove"}, !.installs = BOOLEAN]

InitTranscribe == Constructed(EnvTranscribe)

\* A title whose 50th character after cleaning is a blank, and the title of
\* the end-to-end scenario of the specification.
LongTitle == [i \in 1..(TitleLimit - 1) |-> "a"] \o <<" ", "b">>
ScenarioTitle ==
    <<"H", "e", "l", "l", "o", "/", "W", "o", "r", "l", "d", ":", " ",
      "T", "e", "s", "t", " ", "#", "c", "l", "i", "p">>

\* Every title of at most MaxTitleLen characters over TitleChars, and those.
TitleChars == {"a", " ", "#", "/", "é", "\r"}
TitleInputs ==
    UNION {[1..n -> TitleChars] : n \in 0..MaxTitleLen}
        \cup {NoTitle, LongTitle, ScenarioTitle}

\* One run on Linux for each title.
EnvTitle ==
    [EnvBase EXCEPT !.titles = TitleInputs]

InitTitle == Constructed(EnvTitle)

\* The end-to-end scenario in the packaged window: the downloader yields
\* ScenarioTitle and the engine two segments.
EnvScenario ==
    [EnvBase EXCEPT !.urls = UrlTexts, !.reports = HookReports,
                    !.titles = {ScenarioTitle}, !.segments = {2},
                    !.variants = {"src"}]

InitScenario == Constructed(EnvScenario)

\* One run of the packaged window on every platform, with every failure of
\* every step of extract_audio, an import that fails either way and an
\* install that succeeds or fails.
EnvPackaged ==
    [EnvBase EXCEPT !.imports = CallOutcomes, !.outcomes = {"ok", "Exception"},
                    !.faults = Faults, !.installs = BOOLEAN,
                    !.variants = {"src"}, !.systems = Systems]

InitPackaged == Constructed(EnvPackaged)

\* How many segments the engine may yield: none, one batch of five, the
\* twelve of the specification's example.
SegmentCounts == {0, MaxSegments, 2 * MaxSegments + 2}

\* One run of the packaged window on Linux for each number of segments; the
\* loading of the model and the engine, after the last of its segments, may
\* raise an ImportError, and the install succeeds.
EnvSegments ==
    [EnvBase EXCEPT !.segments = SegmentCounts, !.outcomes = {"ok", "ImportError"},
                    !.imports = {"ok"}, !.installs = {TRUE}, !.variants = {"src"}]

InitSegments == Constructed(EnvSegments)

\* One run on Linux, in both programs, with every failure of every step (an
\* install never succeeds); the title is plain, cleans to nothing, is absent,
\* or is the text of the run's own identifier; an earlier launch left files.
EnvDeliver ==
    [EnvBase EXCEPT !.titles = {<<"a">>, <<"#">>, NoTitle, Uuid(1)}, !.faults = Faults,
                    !.disk = {{}, {OldWorkingFile, OldFinalFile, OldFinalFile_app}}]

InitDeliver == Constructed(EnvDeliver)

\* ------------------------------------------------------------ GUI handlers
\* The modal dialogs that are open, the one that takes the input first.
OpenDialogs == IF dialog = "none" THEN <<>> ELSE <<dialog>> \o parked

\* exec() of a modal dialog over the dialogs below: it runs an event loop of
\* its own, and the one below takes the input again when it has returned.
OpenDialog(d, below) ==
    /\ dialog' = d
    /\ parked' = below

\* The top dialog returns.
ReturnDialog ==
    /\ dialog' = IF parked = <<>> THEN "none" ELSE Head(parked)
    /\ parked' = IF parked = <<>> THEN parked ELSE Tail(parked)

\* update_status: the message of the status bar.
update_status(message) == status_bar' = message

\* Faulty variant: the message box is shown and the trigger left as it is.
show_error_KeepDisabled(message, below) ==
    /\ extract_button' = extract_button
    /\ update_status(<<"Error: ">> \o message)
    /\ OpenDialog("error_box", below)

\* show_error: re-enables the trigger, shows the message in the status bar
\* and opens a modal message box over the dialogs that are open.
show_error(message, below) ==
    /\ extract_button' = TRUE
    /\ update_status(<<"Error: ">> \o message)
    /\ OpenDialog("error_box", below)

\* update_progress: setValue(int(value)); the bar's range is 0..100 and
\* QProgressBar.setValue ignores a value outside the range.
update_progress(value) ==
    progress_bar' = IF value.int \in 0..100 THEN value.int ELSE progress_bar

\* process_finished; only the packaged window completes the bar (line 511).
process_finished(file_path, transcript) ==
    /\ extract_button' = TRUE
    /\ update_status(<<"Audio extracted successfully: ">> \o PathText(file_path))
    /\ progress_bar' = IF variant = "src" THEN 100 ELSE progress_bar
    /\ current_audio_file' = Some(file_path)
    /\ current_transcript' = Some(transcript)
    /\ transcript_text' = IF transcript # <<>> THEN transcript ELSE transcript_text
    /\ copy_button' = IF transcript # <<>> THEN TRUE ELSE copy_button
    /\ save_button' = IF transcript # <<>> THEN TRUE ELSE save_button
    /\ OpenDialog("finished_box", OpenDialogs)

\* The GUI thread handles the oldest queued emission (queued connections are
\* delivered in emission order, also inside a modal dialog's event loop).
Deliver ==
    /\ running
    /\ signals # <<>>
    /\ signals' = Tail(signals)
    /\ LET e == Head(signals)
       IN CASE e.kind = "progress" ->
                 /\ update_progress([int |-> e.pct, frac |-> e.frac])
                 /\ UNCHANGED <<extract_button, copy_button, save_button, dialog, parked,
                                status_bar, transcript_text, current_audio_file,
                                current_transcript>>
            [] e.kind = "status" ->
                 /\ update_status(e.text)
                 /\ UNCHANGED <<extract_button, copy_button, save_button, dialog, parked,
                                progress_bar, transcript_text, current_audio_file,
                                current_transcript>>
            [] e.kind = "finished" -> process_finished(e.path, e.text)
            [] OTHER ->
                 /\ show_error(e.text, OpenDialogs)
                 /\ UNCHANGED <<copy_button, save_button, progress_bar, transcript_text,
                                current_audio_file, current_transcript>>
    /\ UNCHANGED <<env, variant, system, url_input, model_selector, transcribe_checkbox,
                   dest_path, clipboard, explorer, running, nruns, pc, loc, fs, ffmpeg_dir, emitted,
                   request, calls>>

\* ------------------------------------------------------------ user actions
\* A disabled button cannot be clicked, and a modal dialog takes the input.
UserCanAct == running /\ dialog = "none"

EditUrl ==
    /\ UserCanAct
    /\ \E t \in env.urls : url_input' = t
    /\ url_input' # url_input
    /\ UNCHANGED <<env, variant, system, model_selector, transcribe_checkbox, extract_button,
                   copy_button, save_button, progress_bar, transcript_text,
                   current_audio_file, current_transcript, dialog, parked, dest_path,
                   status_bar, clipboard, explorer, running, nruns, pc, loc, signals, fs, ffmpeg_dir,
                   emitted, request, calls>>

EditModel ==
    /\ UserCanAct
    /\ \E t \in env.models : model_selector' = t
    /\ model_selector' # model_selector
    /\ UNCHANGED <<env, variant, system, url_input, transcribe_checkbox, extract_button,
                   copy_button, save_button, progress_bar, transcript_text,
                   current_audio_file, current_transcript, dialog, parked, dest_path,
                   status_bar, clipboard, explorer, running, nruns, pc, loc, signals, fs, ffmpeg_dir,
                   emitted, request, calls>>

\* Only app.py shows the check box.
ToggleTranscribe ==
    /\ UserCanAct
    /\ variant = "app"
    /\ transcribe_checkbox' = ~transcribe_checkbox
    /\ UNCHANGED <<env, variant, system, url_input, model_selector, extract_button,
                   copy_button, save_button, progress_bar, transcript_text,
                   current_audio_file, current_transcript, dialog, parked, dest_path,
                   status_bar, clipboard, explorer, running, nruns, pc, loc, signals, fs, ffmpeg_dir,
                   emitted, request, calls>>

\* show_about, the slot of the About button: QMessageBox.about is a modal
\* message box, except on macOS, where the box is modeless and the window
\* goes on taking the input.
show_about ==
    /\ UserCanAct
    /\ IF system = "Darwin"
       THEN UNCHANGED <<dialog, parked>>
       ELSE OpenDialog("about_box", OpenDialogs)
    /\ UNCHANGED <<env, variant, system, url_input, model_selector, transcribe_checkbox,
                   extract_button, copy_button, save_button, progress_bar,
                   transcript_text, current_audio_file, current_transcript, dest_path,
                   status_bar, clipboard, explorer, running, nruns, pc, loc, signals, fs, ffmpeg_dir,
                   emitted, request, calls>>

\* browse_folder, the slot of app.py's Browse button, up to the modal
\* folder dialog.
browse_folder ==
    /\ UserCanAct
    /\ variant = "app"
    /\ OpenDialog("folder_dialog", OpenDialogs)
    /\ UNCHANGED <<env, variant, system, url_input, model_selector, transcribe_checkbox,
                   extract_button, copy_button, save_button, progress_bar,
                   transcript_text, current_audio_file, current_transcript, dest_path,
                   status_bar, clipboard, explorer, running, nruns, pc, loc, signals, fs, ffmpeg_dir,
                   emitted, request, calls>>

\* browse_folder after the dialog: a folder was chosen, or none (cancelled).
browse_folder_done ==
    /\ running
    /\ dialog = "folder_dialog"
    /\ \E folder \in env.folders \cup {<<>>} :
          dest_path' = IF folder # <<>> THEN folder ELSE dest_path
    /\ ReturnDialog
    /\ UNCHANGED <<env, variant, system, url_input, model_selector, transcribe_checkbox,
                   extract_button, copy_button, save_button, progress_bar,
                   transcript_text, current_audio_file, current_transcript,
                   status_bar, clipboard, explorer, running, nruns, pc, loc, signals, fs, ffmpeg_dir,
                   emitted, request, calls>>

\* Faulty variant: the display is reset and the trigger left enabled.
disable_controls_KeepTrigger ==
    /\ extract_button' = extract_button
    /\ progress_bar' = 0
    /\ transcript_text' = <<>>
    /\ copy_button' = FALSE
    /\ save_button' = FALSE

\* Lines 221-225: the trigger is disabled and the display reset.
disable_controls ==
    /\ extract_button' = FALSE
    /\ progress_bar' = 0
    /\ transcript_text' = <<>>
    /\ copy_button' = FALSE
    /\ save_button' = FALSE

\* start_extraction, the slot of the Extract button; app.py hands the text
\* of the destination field to the worker.
start_extraction ==
    /\ UserCanAct
    /\ extract_button
    /\ LET url == Strip(url_input)
       IN IF url = <<>>
          THEN /\ show_error(<<"Please enter a valid YouTube URL">>, OpenDialogs)
               /\ UNCHANGED <<copy_button, save_button, progress_bar, transcript_text,
                              nruns, pc, loc, request>>
          ELSE /\ nruns < env.runs
               /\ disable_controls
               /\ update_status(<<"Initializing download...">>)
               /\ UNCHANGED <<dialog, parked>>
               /\ nruns' = nruns + 1
               /\ pc' = [pc EXCEPT ![nruns + 1] = "provision"]
               /\ loc' = [loc EXCEPT ![nruns + 1].url = url,
                                     ![nruns + 1].destination_folder =
                                         IF variant = "app" THEN dest_path ELSE <<>>]
               /\ request' = [request EXCEPT ![nruns + 1] =
                                 [url |-> url, model |-> model_selector,
                                  transcribe |-> transcribe_checkbox]]
    /\ UNCHANGED <<env, variant, system, url_input, model_selector, transcribe_checkbox,
                   current_audio_file, current_transcript, dest_path, clipboard, explorer, running,
                   signals, fs, ffmpeg_dir, emitted, calls>>

\* copy_transcript: the transcript goes to the clipboard.
copy_transcript ==
    /\ UserCanAct
    /\ copy_button
    /\ current_transcript.has /\ current_transcript.val # <<>>
    /\ clipboard' = Some(current_transcript.val)
    /\ update_status(<<"Transcription copied to clipboard">>)
    /\ UNCHANGED <<env, variant, system, url_input, model_selector, transcribe_checkbox,
                   extract_button, copy_button, save_button, progress_bar,
                   transcript_text, current_audio_file, current_transcript, dialog,
                   parked, dest_path, explorer, running, nruns, pc, loc, signals, fs,
                   ffmpeg_dir, emitted, request, calls>>

\* save_transcript up to the modal file dialog.
save_transcript ==
    /\ UserCanAct
    /\ save_button
    /\ current_transcript.has /\ current_transcript.val # <<>>
    /\ OpenDialog("save_dialog", OpenDialogs)
    /\ UNCHANGED <<env, variant, system, url_input, model_selector, transcribe_checkbox,
                   extract_button, copy_button, save_button, progress_bar,
                   transcript_text, current_audio_file, current_transcript, dest_path,
                   status_bar, clipboard, explorer, running, nruns, pc, loc, signals, fs, ffmpeg_dir,
                   emitted, request, calls>>

\* The path the file dialog proposes (line 565; app.py line 593: below the
\* destination folder); the user keeps it.
SavePath ==
    (IF variant = "app" THEN dest_path ELSE DestDir) \o <<<<"transcription.txt">>>>

\* save_transcript after the dialog: cancelled, written, or an exception:
\* open raises and no file is made, or the write raises after open has
\* created or truncated the file.
save_transcript_done ==
    /\ running
    /\ dialog = "save_dialog"
    /\ \E o \in {"cancel", "written", "open_raises", "write_raises"} :
          CASE o = "open_raises" ->
                 /\ show_error(<<"Error saving transcription: ", "OSError">>, parked)
                 /\ fs' = fs
            [] o = "write_raises" ->
                 /\ show_error(<<"Error saving transcription: ", "OSError">>, parked)
                 /\ fs' = WriteFile(fs, SavePath, 0)
            [] o = "written" ->
                 /\ fs' = WriteFile(fs, SavePath, 0)
                 /\ update_status(<<"Transcription saved to: ">> \o PathText(SavePath))
                 /\ ReturnDialog
                 /\ UNCHANGED extract_button
            [] OTHER ->
                 /\ ReturnDialog
                 /\ UNCHANGED <<extract_button, status_bar, fs>>
    /\ UNCHANGED <<env, variant, system, url_input, model_selector, transcribe_checkbox,
                   copy_button, save_button, progress_bar, transcript_text,
                   current_audio_file, current_transcript, dest_path, clipboard, explorer,
                   running, nruns, pc, loc, signals, ffmpeg_dir, emitted, request, calls>>

\* os.path.dirname of a path.
dirname(p) == SubSeq(p, 1, Len(p) - 1)

\* What handing a folder to the file manager does: os.startfile and open
\* return; subprocess.run(["xdg-open", path]) raises FileNotFoundError where
\* xdg-open is not installed.
OpenOutcomes(sys) == IF sys \in {"Windows", "Darwin"} THEN {"ok"} ELSE {"ok", "raises"}

\* open_file_explorer: the folder is handed to the platform's file manager.
\* An exception leaves the slot process_finished, and PyQt aborts the
\* application on an exception that leaves a slot.
open_file_explorer(path, o) ==
    IF o = "ok"
    THEN explorer' = Some(path) /\ running' = running
    ELSE explorer' = explorer /\ running' = FALSE

\* The user dismisses a message box; the completion box has two buttons,
\* and after "Open Folder" process_finished opens the folder of the file.
CloseDialog ==
    /\ running
    /\ dialog \in {"finished_box", "error_box", "about_box"}
    /\ ReturnDialog
    /\ \E button \in {"OK", "Open Folder"} :
          IF dialog = "finished_box" /\ button = "Open Folder"
          THEN \E o \in OpenOutcomes(system) :
                  open_file_explorer(dirname(current_audio_file.val), o)
          ELSE UNCHANGED <<explorer, running>>
    /\ UNCHANGED <<env, variant, system, url_input, model_selector, transcribe_checkbox,
                   extract_button, copy_button, save_button, progress_bar,
                   transcript_text, current_audio_file, current_transcript, dest_path,
                   status_bar, clipboard, nruns, pc, loc, signals, fs, ffmpeg_dir,
                   emitted, request, calls>>

\* ------------------------------------------------------------- the worker
\* Whether a step that can fail does: both when the environment lets it.
Fails(f) == IF f \in env.faults THEN BOOLEAN ELSE {FALSE}
Succeeds(f) == IF f \in env.faults THEN BOOLEAN ELSE {TRUE}

\* self.signals.X.emit(...) from the worker thread: queued for the GUI thread.
Emit(r, evs) ==
    /\ signals' = signals \o evs
    /\ emitted' = [emitted EXCEPT ![r] = @ \o evs]

\* Faulty variant: the handler swallows the exception.
extract_audio_except_Pass(r, e) == <<>>

\* Faulty variant: the worker returns without reporting the missing file.
missing_file_events_Silent(r) == <<>>

\* Faulty variant: the bar is completed by an event after the terminal one.
FinishedEvents_ThenProgress(r, path, transcript) ==
    <<Finished(r, path, transcript), Progress(r, 100)>>

\* Faulty variant: the message leaves out the exception's text.
extract_audio_except_NoText(r, e) == <<Error(r, <<"Error during extraction: ">>)>>

\* except Exception as e: (lines 318-319)
extract_audio_except(r, e) == <<Error(r, <<"Error during extraction: ", e>>)>>

\* Lines 283-285: the error emitted when the .mp3 is not there.
missing_file_events(r) == <<Error(r, <<"MP3 extraction failed. Check installation.">>)>>

\* Line 316: the last statement of the try block.
FinishedEvents(r, path, transcript) == <<Finished(r, path, transcript)>>

\* The run's working file (line 281; app.py: the file found in download_dir).
mp3_file(r) ==
    IF variant = "src" THEN TempDir \o <<Uuid(r) \o <<".mp3">>>>
    ELSE TempDir \o <<Uuid(r), <<"%(title)s", ".mp3">>>>

\* The final path (lines 301-302; app.py lines 358-361).
destination_path(r, title) ==
    IF variant = "src" THEN TempDir \o <<safe_filename(title, Uuid(r))>>
    ELSE loc[r].destination_folder \o <<safe_filename_app(title)>>

hook(r, d) == IF variant = "src" THEN progress_hook(r, d) ELSE progress_hook_app(r, d)

\* Whether the provisioner finds a download due (lines 331 and 373).
DownloadDue(sys, dir) == sys \in {"Windows", "Darwin"} /\ ~(RequiredTools(sys) \subseteq dir)

\* The status the provisioner emits before its first blocking call: where a
\* download is due (lines 339 and 381), nothing elsewhere.
DownloadingEvents(r, sys, dir) ==
    IF DownloadDue(sys, dir)
    THEN <<Status(r, <<(IF sys = "Windows" THEN "Downloading FFmpeg for Windows..."
                        ELSE "Downloading FFmpeg for macOS...")>>)>>
    ELSE <<>>

\* Line 251 up to the first blocking call of get_or_download_ffmpeg
\* (requests.get, or the probe of the system tool).  app.py lines 304-329:
\* before the provisioner is called the run's directory is made below the
\* temporary folder, and mkdir raises when that folder is gone or cannot be
\* written.
ExtractAudio_Provision(r) ==
    /\ running
    /\ pc[r] = "provision"
    /\ \E made \in (IF variant = "app" THEN Succeeds("mkdir") ELSE {TRUE}) :
          IF made
          THEN /\ Emit(r, DownloadingEvents(r, system, ffmpeg_dir))
               /\ pc' = [pc EXCEPT ![r] = IF DownloadDue(system, ffmpeg_dir)
                                          THEN "provision_get" ELSE "provision_call"]
               /\ calls' = calls
          ELSE /\ Emit(r, extract_audio_except(r, "MkdirError"))
               /\ pc' = [pc EXCEPT ![r] = "done"]
               /\ calls' = [calls EXCEPT ![r].mkdir_raised = TRUE]
    /\ UNCHANGED <<env, variant, system, ui, nruns, loc, fs, ffmpeg_dir, request>>

\* get_or_download_ffmpeg returns to line 251: the directory as the call
\* leaves it, what the call emitted at its end; then the identifier, the
\* options and the first status of the fetch (lines 254-276).
ProvisionReturns(r, res, net, probes, failed) ==
    /\ ffmpeg_dir' = res.dir
    /\ loc' = [loc EXCEPT ![r].ffmpeg_path = res.ret,
                          ![r].download_id = Uuid(r)]
    /\ calls' = [calls EXCEPT ![r].provision = @ + 1,
                              ![r].net = @ + net,
                              ![r].probes = @ + probes,
                              ![r].provision_failed = failed]
    /\ Emit(r, res.events \o <<Status(r, <<"Retrieving video information...">>)>>)
    /\ pc' = [pc EXCEPT ![r] = "download"]

\* The provisioner goes on to its next blocking call: iter_content after the
\* archive was opened for writing, or the requests.get of the second archive.
ProvisionWaits(r, dir, net, at) ==
    /\ ffmpeg_dir' = dir
    /\ calls' = [calls EXCEPT ![r].net = @ + net]
    /\ pc' = [pc EXCEPT ![r] = at]
    /\ UNCHANGED <<loc, signals, emitted>>

\* Lines 251-276 and 321-426: a blocking call of the provisioner ends.  The
\* positions are the calls the code waits in: the probe of the system tool,
\* or nothing, where no download is due ("provision_call"); requests.get
\* ("provision_get") and iter_content ("provision_stream") of the first
\* archive; the same of the second archive of macOS ("provision_get2",
\* "provision_stream2").  What follows a body that was read (the
\* extraction, os.remove, os.chmod) is done on the local disk, in the step
\* of the body.
ExtractAudio_Provisioned(r) ==
    /\ running
    /\ CASE pc[r] = "provision_call" ->
              \E o \in OutcomesOn(system, ffmpeg_dir) :
                 LET res == get_or_download_ffmpeg(r, system, ffmpeg_dir, o)
                 IN ProvisionReturns(r, res, res.net, res.probes,
                                     ProvisionRaises(system, ffmpeg_dir, o))
         [] pc[r] = "provision_get" ->
              \E returned \in BOOLEAN :
                 IF returned
                 THEN ProvisionWaits(r, ffmpeg_dir \cup {"ffmpeg.zip"}, 1, "provision_stream")
                 ELSE ProvisionReturns(r,
                          ProvisionResult(None, download_failed(r, <<"ConnectionError">>),
                                          ffmpeg_dir, 1, 0),
                          1, 0, TRUE)
         [] pc[r] = "provision_stream" ->
              \E d \in {e \in Downloads(system) : e.fetch # "get_raises"} :
                 IF system = "Windows"
                 THEN LET res == download_ffmpeg_windows(r, ffmpeg_dir, d)
                      IN ProvisionReturns(r, res, 0, 0, res.ret = None)
                 ELSE LET a == download_and_extract_macos_binary(ffmpeg_dir, d, "ffmpeg")
                      IN IF a.raised = <<>>
                         THEN ProvisionWaits(r, a.dir, 0, "provision_get2")
                         ELSE ProvisionReturns(r,
                                  ProvisionResult(None, download_failed(r, a.raised),
                                                  a.dir, 1, 0),
                                  0, 0, TRUE)
         [] pc[r] = "provision_get2" ->
              \E returned \in BOOLEAN :
                 IF returned
                 THEN ProvisionWaits(r, ffmpeg_dir \cup {"ffprobe.zip"}, 1, "provision_stream2")
                 ELSE ProvisionReturns(r,
                          ProvisionResult(None, download_failed(r, <<"ConnectionError">>),
                                          ffmpeg_dir, 1, 0),
                          1, 0, TRUE)
         [] pc[r] = "provision_stream2" ->
              \E d \in {e \in Downloads(system) : e.fetch # "get_raises"} :
                 LET res == download_ffprobe_macos(r, ffmpeg_dir, d)
                 IN ProvisionReturns(r, res, 0, 0, res.ret = None)
         [] OTHER -> FALSE
    /\ UNCHANGED <<env, variant, system, ui, nruns, fs, request>>

\* The downloader calls the progress hook while extract_info runs; an
\* exception of the hook leaves extract_info and reaches the handler of
\* extract_audio.
ExtractAudio_Hook(r) ==
    /\ running
    /\ pc[r] = "download"
    /\ loc[r].hooks < env.hooks
    /\ \E d \in env.reports :
          IF hook_error(d) = "none"
          THEN /\ Emit(r, hook(r, d))
               /\ calls' = [calls EXCEPT ![r].reports = Append(@, d)]
               /\ pc' = pc
          ELSE /\ Emit(r, extract_audio_except(r, hook_error(d)))
               /\ calls' = [calls EXCEPT ![r].reports = Append(@, d),
                                         ![r].download = @ + 1,
                                         ![r].fetch = "raised",
                                         ![r].hook_error = hook_error(d)]
               /\ pc' = [pc EXCEPT ![r] = "done"]
    /\ loc' = [loc EXCEPT ![r].hooks = @ + 1]
    /\ UNCHANGED <<env, variant, system, ui, nruns, fs, ffmpeg_dir, request>>

\* Lines 277-285: extract_info returns or raises; the .mp3 is there or not.
ExtractAudio_Download(r) ==
    /\ running
    /\ pc[r] = "download"
    /\ \E raises \in Fails("fetch"), produced \in Succeeds("fetch"), t \in env.titles :
          LET fs1 == IF produced THEN WriteFile(fs, mp3_file(r), r) ELSE fs
          IN /\ fs' = fs1
             /\ calls' = [calls EXCEPT
                            ![r].download = @ + 1,
                            ![r].fetch = IF raises THEN "raised"
                                         ELSE IF ~Exists(fs1, mp3_file(r)) THEN "no_file"
                                         ELSE "ok"]
             /\ IF raises
                THEN /\ t = CHOOSE x \in env.titles : TRUE
                     /\ Emit(r, extract_audio_except(r, "DownloadError"))
                     /\ pc' = [pc EXCEPT ![r] = "done"]
                     /\ loc' = loc
                ELSE IF ~Exists(fs1, mp3_file(r))
                THEN /\ Emit(r, missing_file_events(r))
                     /\ pc' = [pc EXCEPT ![r] = "done"]
                     /\ loc' = [loc EXCEPT ![r].title = TitleOf(t),
                                           ![r].mp3_file = mp3_file(r)]
                ELSE /\ pc' = [pc EXCEPT ![r] = "copy"]
                     /\ loc' = [loc EXCEPT ![r].title = TitleOf(t),
                                           ![r].mp3_file = mp3_file(r)]
                     /\ UNCHANGED <<signals, emitted>>
    /\ UNCHANGED <<env, variant, system, ui, nruns, ffmpeg_dir, request>>

\* Whether this run transcribes: always in the packaged window, the check
\* box as it is when the worker gets here in app.py (line 366).
WantsTranscript == variant = "src" \/ transcribe_checkbox

\* Lines 290 (re.sub) and app.py line 358 (title.replace) with a title that
\* is None: the exception the call raises.
title_error == IF variant = "src" THEN "TypeError" ELSE "AttributeError"

\* Lines 287-298: the title is not a text and the sanitization raises.
BadTitle(r) ==
    /\ Emit(r, extract_audio_except(r, title_error))
    /\ pc' = [pc EXCEPT ![r] = "done"]
    /\ calls' = [calls EXCEPT ![r].title_raised = TRUE]
    /\ UNCHANGED <<loc, fs>>

\* Lines 287-310 with a title that is a text: the name, the copy, the start
\* of the transcription.
CopyAndStart(r) ==
    /\ LET dest == destination_path(r, loc[r].title)
       IN \E ok \in BOOLEAN :
             \* shutil.copy2 raises SameFileError when source and target agree
             /\ dest = loc[r].mp3_file => ~ok
             /\ ~Exists(fs, loc[r].mp3_file) => ~ok
             /\ ~ok => \/ "copy" \in env.faults
                       \/ dest = loc[r].mp3_file
                       \/ ~Exists(fs, loc[r].mp3_file)
             /\ IF ok
                THEN /\ fs' = WriteFile(fs, dest, r)
                     /\ IF WantsTranscript
                        THEN /\ Emit(r, <<Status(r, <<"Starting audio transcription...">>)>>)
                             /\ pc' = [pc EXCEPT ![r] = "t_import"]
                             /\ loc' = [loc EXCEPT ![r].destination_path = dest,
                                                   ![r].depth = 1]
                             /\ calls' = [calls EXCEPT ![r].transcribe = @ + 1]
                        ELSE /\ pc' = [pc EXCEPT ![r] = "cleanup"]
                             /\ loc' = [loc EXCEPT ![r].destination_path = dest]
                             /\ UNCHANGED <<signals, emitted, calls>>
                ELSE /\ Emit(r, extract_audio_except(r, "CopyError"))
                     /\ pc' = [pc EXCEPT ![r] = "done"]
                     /\ loc' = [loc EXCEPT ![r].destination_path = dest]
                     /\ calls' = [calls EXCEPT ![r].copy_raised = TRUE]
                     \* copy2 raises before the target is opened, or while
                     \* it is written: what was written stays
                     /\ \E partial \in (IF dest # loc[r].mp3_file
                                            /\ Exists(fs, loc[r].mp3_file)
                                        THEN BOOLEAN ELSE {FALSE}) :
                           fs' = IF partial THEN WriteFile(fs, dest, r) ELSE fs

\* Lines 287-310.
ExtractAudio_Copy(r) ==
    /\ running
    /\ pc[r] = "copy"
    /\ IF loc[r].title = NullTitle THEN BadTitle(r) ELSE CopyAndStart(r)
    /\ UNCHANGED <<env, variant, system, ui, nruns, ffmpeg_dir, request>>

\* ------------------------------------------------- transcribe_audio, in steps
\* Lines 430-431 (app.py line 488).
ImportEvents(r) ==
    IF variant = "src"
    THEN <<Status(r, <<"Importing transcription library...">>), Progress(r, 60)>>
    ELSE <<Status(r, <<"Importing transcription library...">>)>>

\* Lines 438-439 (app.py line 494).
LoadEvents(r, m) ==
    IF variant = "src"
    THEN <<Status(r, <<"Loading transcription model '">> \o m \o <<"'...">>), Progress(r, 70)>>
    ELSE <<Status(r, <<"Loading transcription model '">> \o m \o <<"'...">>)>>

\* Lines 449-450 (app.py line 504).
StartEvents(r) ==
    IF variant = "src"
    THEN <<Status(r, <<"Starting transcription... (may take several minutes)">>),
           Progress(r, 75)>>
    ELSE <<Status(r, <<"Transcription in progress... (may take several minutes)">>)>>

\* Lines 470-476: the events of segment number count (app.py emits none).
SegmentLoopEvents(r, count) == IF variant = "src" THEN SegmentEvents(r, count) ELSE <<>>

\* Lines 478-480 (app.py line 514).
CompletedEvents(r) ==
    IF variant = "src"
    THEN <<Progress(r, 95), Status(r, <<"Transcription completed successfully">>)>>
    ELSE <<Status(r, <<"Transcription completed">>)>>

\* except ImportError: (line 485)
ImportErrorEvents(r) == <<Status(r, <<"Installing transcription library...">>)>>

\* Faulty variant: the failure is turned into an empty transcript.
transcription_error_Empty(e) == <<>>

\* except Exception as e: (lines 495-498): the message is status and result.
transcription_error(e) == <<"Error during transcription: ", e>>

\* Line 493.
install_error(e) == <<"Error installing transcription library: ", e>>

\* transcribe_audio returns text to line 310; the worker goes on to line 312.
Return(r, text) ==
    /\ loc' = [loc EXCEPT ![r].transcript = text]
    /\ pc' = [pc EXCEPT ![r] = "cleanup"]

\* Lines 495-498: an exception that is no ImportError is emitted as a status
\* and returned as the result.
Caught(r, e) ==
    /\ Emit(r, <<Status(r, transcription_error(e))>>)
    /\ Return(r, transcription_error(e))
    /\ calls' = [calls EXCEPT ![r].transcription_failed = TRUE]

\* Lines 430-431: the status and the progress before the import statement.
Transcribe_Import(r) ==
    /\ running
    /\ pc[r] = "t_import"
    /\ Emit(r, ImportEvents(r))
    /\ pc' = [pc EXCEPT ![r] = "t_import_call"]
    /\ UNCHANGED <<env, variant, system, ui, nruns, loc, fs, ffmpeg_dir, request, calls>>

\* Line 434: the import statement returns or raises: an ImportError, or
\* another exception (a library that is there and fails to load, or the
\* RecursionError of the deepest call), which line 495 catches.  In a call
\* at the recursion limit the interpreters from 3.12 on raise RecursionError
\* inside the import statement of a library that is not there; the older
\* ones let it raise ImportError and raise RecursionError in check_call.
\* app.py runs from 3.12 on only (its line 358 nests the quotes of an
\* f-string).
Transcribe_Imported(r) ==
    /\ running
    /\ pc[r] = "t_import_call"
    /\ \E o \in env.imports :
          CASE o = "ok" ->
                 /\ pc' = [pc EXCEPT ![r] = "t_load"]
                 /\ UNCHANGED <<loc, calls, signals, emitted>>
            [] o = "Exception" -> Caught(r, "import failed")
            [] OTHER ->
                 \/ /\ variant = "src" \/ loc[r].depth < RecursionLimit
                    /\ Emit(r, ImportErrorEvents(r))
                    /\ pc' = [pc EXCEPT ![r] = "t_install"]
                    /\ UNCHANGED <<loc, calls>>
                 \/ /\ loc[r].depth >= RecursionLimit
                    /\ Caught(r, "RecursionError")
    /\ UNCHANGED <<env, variant, system, ui, nruns, fs, ffmpeg_dir, request>>

\* Lines 487-493: pip install, then the recursive call.  Every level of the
\* recursion is a frame of the interpreter's stack: a call at the recursion
\* limit that gets here (its import statement raised ImportError) has
\* check_call raise RecursionError before pip is started, and the handler
\* of line 492 returns its text.
Transcribe_Install(r) ==
    /\ running
    /\ pc[r] = "t_install"
    /\ IF loc[r].depth >= RecursionLimit
       THEN /\ Return(r, install_error("RecursionError"))
            /\ calls' = [calls EXCEPT ![r].transcription_failed = TRUE]
            /\ UNCHANGED <<signals, emitted>>
       ELSE \E ok \in env.installs :
               IF ~ok
               THEN /\ Return(r, install_error("CalledProcessError"))
                    /\ calls' = [calls EXCEPT ![r].installs = @ + 1,
                                              ![r].transcription_failed = TRUE]
                    /\ UNCHANGED <<signals, emitted>>
               ELSE /\ Emit(r, <<Status(r, <<"Library installed, restarting transcription...">>)>>)
                    /\ loc' = [loc EXCEPT ![r].depth = @ + 1]
                    /\ pc' = [pc EXCEPT ![r] = "t_import"]
                    /\ calls' = [calls EXCEPT ![r].installs = @ + 1,
                                              ![r].transcribe = @ + 1]
    /\ UNCHANGED <<env, variant, system, ui, nruns, fs, ffmpeg_dir, request>>

\* Lines 437-439: the model name is read from the widget here, and the
\* loading is announced.
Transcribe_Load(r) ==
    /\ running
    /\ pc[r] = "t_load"
    /\ LET m == model_size(model_selector)
       IN /\ Emit(r, LoadEvents(r, m))
          /\ loc' = [loc EXCEPT ![r].model_size = m]
    /\ pc' = [pc EXCEPT ![r] = "t_model"]
    /\ UNCHANGED <<env, variant, system, ui, nruns, fs, ffmpeg_dir, request, calls>>

\* Lines 442-450: WhisperModel(...) returns or raises; the start of the
\* transcription is announced.
Transcribe_Model(r) ==
    /\ running
    /\ pc[r] = "t_model"
    /\ \E o \in env.outcomes :
          CASE o = "ok" ->
                 /\ Emit(r, StartEvents(r))
                 /\ loc' = [loc EXCEPT ![r].segment_count = 0]
                 /\ pc' = [pc EXCEPT ![r] = "t_run"]
                 /\ calls' = calls
            [] o = "Exception" -> Caught(r, "load failed")
            [] OTHER ->
                 /\ Emit(r, ImportErrorEvents(r))
                 /\ pc' = [pc EXCEPT ![r] = "t_install"]
                 /\ loc' = loc
                 /\ calls' = [calls EXCEPT ![r].retried_late = TRUE]
    /\ UNCHANGED <<env, variant, system, ui, nruns, fs, ffmpeg_dir, request>>

\* Lines 453-482: model.transcribe and the loop over the lazy segments, of
\* which the engine yields one of env.segments in all.  A step goes up to the
\* next segment whose number is a multiple of five, where the loop emits
\* (lines 470-476), or through the segments that are left, after which the
\* engine ends or raises.
Transcribe_Run(r) ==
    /\ running
    /\ pc[r] = "t_run"
    /\ \/ /\ \E n \in env.segments : n >= loc[r].segment_count + 5
          /\ Emit(r, SegmentLoopEvents(r, loc[r].segment_count + 5))
          /\ loc' = [loc EXCEPT ![r].segment_count = @ + 5]
          /\ UNCHANGED <<pc, calls>>
       \/ \E n \in env.segments, o \in env.outcomes :
             /\ loc[r].segment_count <= n
             /\ n < loc[r].segment_count + 5
             /\ CASE o = "ok" ->
                       /\ Emit(r, CompletedEvents(r))
                       /\ Return(r, Strip(Accumulate(n)))
                       /\ calls' = [calls EXCEPT ![r].segments = n]
                  [] o = "Exception" -> Caught(r, "decode failed")
                  [] OTHER ->
                       /\ Emit(r, ImportErrorEvents(r))
                       /\ pc' = [pc EXCEPT ![r] = "t_install"]
                       /\ loc' = loc
                       /\ calls' = [calls EXCEPT ![r].retried_late = TRUE]
    /\ UNCHANGED <<env, variant, system, ui, nruns, fs, ffmpeg_dir, request>>

\* Lines 312-316: os.remove, which can raise, then finished.  app.py lines
\* 370-374: shutil.rmtree(ignore_errors=True) never raises, whether or not
\* it removed the directory.
ExtractAudio_Cleanup(r) ==
    /\ running
    /\ pc[r] = "cleanup"
    /\ \E removed \in Succeeds("remove") :
          IF variant = "src"
          THEN IF removed
               THEN /\ fs' = RemoveFile(fs, loc[r].mp3_file)
                    /\ Emit(r, FinishedEvents(r, loc[r].destination_path, loc[r].transcript))
                    /\ calls' = calls
               ELSE /\ fs' = fs
                    /\ Emit(r, extract_audio_except(r, "RemoveError"))
                    /\ calls' = [calls EXCEPT ![r].remove_raised = TRUE]
          ELSE /\ fs' = IF removed THEN RemoveTree(fs, TempDir \o <<Uuid(r)>>) ELSE fs
               /\ Emit(r, FinishedEvents(r, loc[r].destination_path, loc[r].transcript))
               /\ calls' = calls
    /\ pc' = [pc EXCEPT ![r] = "done"]
    /\ UNCHANGED <<env, variant, system, ui, nruns, loc, ffmpeg_dir, request>>

\* --------------------------------------------------------------------- next
Worker(r) ==
    \/ ExtractAudio_Provision(r)
    \/ ExtractAudio_Provisioned(r)
    \/ ExtractAudio_Hook(r)
    \/ ExtractAudio_Download(r)
    \/ ExtractAudio_Copy(r)
    \/ Transcribe_Import(r)
    \/ Transcribe_Imported(r)
    \/ Transcribe_Install(r)
    \/ Transcribe_Load(r)
    \/ Transcribe_Model(r)
    \/ Transcribe_Run(r)
    \/ ExtractAudio_Cleanup(r)

\* The packaged window: what its user, its GUI thread and its workers do.
NextPackaged ==
    \/ EditUrl
    \/ EditModel
    \/ show_about
    \/ start_extraction
    \/ copy_transcript
    \/ save_transcript
    \/ save_transcript_done
    \/ CloseDialog
    \/ Deliver
    \/ \E r \in Runs : Worker(r)

\* app.py also has the check box and the destination folder.
Next ==
    \/ NextPackaged
    \/ ToggleTranscribe
    \/ browse_folder
    \/ browse_folder_done

Spec == Init /\ [][Next]_vars

SpecProvision == InitProvision /\ [][Next]_vars

SpecFetch == InitFetch /\ [][Next]_vars

SpecUser == InitUser /\ [][Next]_vars

SpecRuns == InitRuns /\ [][NextPackaged]_vars

SpecTitle == InitTitle /\ [][Next]_vars

SpecTranscribe == InitTranscribe /\ [][Next]_vars

SpecScenario == InitScenario /\ [][NextPackaged]_vars

SpecPackaged == InitPackaged /\ [][NextPackaged]_vars

SpecSegments == InitSegments /\ [][NextPackaged]_vars

SpecDeliver == InitDeliver /\ [][Next]_vars

\* The worker thread is scheduled until extract_audio returns (each call it
\* makes returns or raises), and the GUI thread's event loop, also the
\* nested one of a modal dialog, handles every queued emission.
SpecLive ==
    /\ InitLive
    /\ [][Next]_vars
    /\ WF_vars(Deliver)
    /\ \A r \in Runs : WF_vars(Worker(r))

\* =================================================================== claims
RunOver(r) == pc[r] = "done"
Last(q) == q[Len(q)]
TerminalPositions(r) == {i \in DOMAIN emitted[r] : emitted[r][i].kind \in Terminal}
HasFinished(r) == \E i \in DOMAIN emitted[r] : emitted[r][i].kind = "finished"
HasError(r) == \E i \in DOMAIN emitted[r] : emitted[r][i].kind = "error"
ProgressEvents(r) == SelectSeq(emitted[r], LAMBDA e : e.kind = "progress")
IsErrorText(t) ==
    /\ t # <<>>
    /\ t[1] \in {"Error during transcription: ", "Error installing transcription library: "}

\* The working file of run r is on disk (app.py: anything left in download_dir).
WorkingFileExists(r) ==
    IF variant = "src" THEN Exists(fs, mp3_file(r))
    ELSE \E f \in fs : /\ Len(f.path) > 2
                       /\ SubSeq(f.path, 1, 2) = TempDir \o <<Uuid(r)>>

\* C1: a run never emits more than one terminal event (finished or error),
\* and a run that is over has emitted exactly one.
C1_ExactlyOneTerminal ==
    \A r \in Runs :
        /\ Cardinality(TerminalPositions(r)) <= 1
        /\ RunOver(r) => Cardinality(TerminalPositions(r)) = 1

\* A run that transcribed and then failed to remove its working file is over.
C1_Witness ==
    \E r \in Runs : RunOver(r) /\ calls[r].remove_raised /\ calls[r].transcribe > 0

\* C2: the terminal event of a run is the last event its worker emits.
C2_TerminalIsLast ==
    \A r \in Runs : \A i \in DOMAIN emitted[r] :
        emitted[r][i].kind \in Terminal => i = Len(emitted[r])

\* A successful run that emitted progress and status before finished.
C2_Witness ==
    \E r \in Runs :
        /\ RunOver(r)
        /\ Last(emitted[r]).kind = "finished"
        /\ Len(ProgressEvents(r)) >= 3
        /\ calls[r].reports # <<>>

\* C3: a fetch failure (the downloader raises, or the .mp3 is not there
\* afterwards) ends the run with an error event carrying a message; the
\* transcriber is not invoked and no finished event is emitted.
C3_FetchFailureFails ==
    \A r \in Runs :
        calls[r].fetch \in {"raised", "no_file"} =>
            /\ RunOver(r)
            /\ Last(emitted[r]).kind = "error"
            /\ Last(emitted[r]).text # <<>>
            /\ calls[r].transcribe = 0
            /\ ~HasFinished(r)

\* The downloader returned and the file is missing.
C3_Witness ==
    \E r \in Runs : calls[r].fetch = "no_file" /\ RunOver(r) /\ HasError(r)

\* C4 as stated: a run whose transcription failed ends with finished, the
\* transcript field being the error text.
C4_Original ==
    \A r \in Runs :
        (RunOver(r) /\ calls[r].transcription_failed) =>
            /\ Last(emitted[r]).kind = "finished"
            /\ Last(emitted[r]).text = loc[r].transcript

\* C4, amended: a failed transcription (the import, the loading of the
\* model or the decoding raises; the library is missing and its installation
\* fails or recurs to the interpreter's limit) returns its error text
\* instead of raising (the worker goes on to the removal of the working
\* file), and the run ends with finished carrying that text unless that
\* removal raises, which only os.remove in the packaged window can; then it
\* ends with error.
C4_TranscriptionFailureReturnsText ==
    \A r \in Runs :
        calls[r].transcription_failed =>
            /\ pc[r] \in {"cleanup", "done"}
            /\ IsErrorText(loc[r].transcript)
            /\ RunOver(r) =>
                  IF calls[r].remove_raised
                  THEN variant = "src" /\ Last(emitted[r]).kind = "error"
                  ELSE /\ Last(emitted[r]).kind = "finished"
                       /\ Last(emitted[r]).text = loc[r].transcript

\* A run whose transcription failed ended with finished.
C4_Witness ==
    \E r \in Runs :
        /\ RunOver(r)
        /\ calls[r].transcription_failed
        /\ Last(emitted[r]).kind = "finished"
        /\ IsErrorText(Last(emitted[r]).text)

\* C5: when the provisioner fails (an exception inside it, or the probe
\* fails on Linux) it returns no location, and the run is in the fetch phase
\* having emitted nothing but status events: no error event on that account.
C5_ProvisioningNeverFailsRun ==
    \A r \in Runs :
        calls[r].provision_failed =>
            /\ loc[r].ffmpeg_path = None
            /\ calls[r].download = 0 =>
                  /\ pc[r] = "download"
                  /\ \A i \in DOMAIN emitted[r] :
                        emitted[r][i].kind \in {"status", "progress"}
                  /\ \A i \in DOMAIN emitted[r] :
                        calls[r].reports = <<>> => emitted[r][i].kind = "status"

\* A run whose provisioning failed went through the fetch and succeeded.
C5_Witness ==
    \E r \in Runs :
        /\ calls[r].provision_failed
        /\ calls[r].download = 1
        /\ RunOver(r)
        /\ Last(emitted[r]).kind = "finished"

\* C6 as stated: when a run is over its working file is gone.
C6_WorkingFileRemoved ==
    \A r \in Runs : RunOver(r) => ~WorkingFileExists(r)

\* The value of the last progress event of run r; -1 when there is none.
LastProgress(r) ==
    IF ProgressEvents(r) = <<>> THEN -1 ELSE Last(ProgressEvents(r)).pct

\* The float a progress event carries.
ValueOf(e) == [int |-> e.pct, frac |-> e.frac]

\* Where the worker announced the transcription (line 309); 0 if it did not.
TranscriptionStart(r) ==
    LET at == {i \in DOMAIN emitted[r] :
                  /\ emitted[r][i].kind = "status"
                  /\ emitted[r][i].text = <<"Starting audio transcription...">>}
    IN IF at = {} THEN 0 ELSE CHOOSE i \in at : \A j \in at : i <= j

\* C8 as stated: the last progress event of a successful run is 100.
C8_Original ==
    \A r \in Runs : HasFinished(r) => LastProgress(r) = 100

\* The progress values of run r are in non-decreasing order.
NonDecreasing(r) ==
    LET p == ProgressEvents(r)
    IN \A i \in 1..(Len(p) - 1) : FloatLeq(ValueOf(p[i]), ValueOf(p[i + 1]))

\* The reports that make the hook emit a progress value, and the fraction of
\* the transfer each stands for: downloaded/total, 1/1 for the end marker.
Measured(q) ==
    SelectSeq(q, LAMBDA d : d.status = "finished"
                            \/ (d.status = "downloading" /\ HasTotal(d)))

\* C9 as stated: the progress values of a run are non-decreasing whatever
\* the downloader reports.
C9_Original == \A r \in Runs : NonDecreasing(r)

\* The workers in progress, and the runs whose terminal event waits in the
\* GUI thread's queue.
InProgress == {r \in Runs : pc[r] \notin {"idle", "done"}}
TerminalPending(r) ==
    \E i \in DOMAIN signals : signals[i].run = r /\ signals[i].kind \in Terminal

\* C7 as stated: a run requested with the check box off never invokes the
\* transcriber, emits none of its events, and succeeds with an empty transcript.
C7_TranscriptSkipped ==
    \A r \in Runs :
        (pc[r] # "idle" /\ ~request[r].transcribe) =>
            /\ calls[r].transcribe = 0
            /\ TranscriptionStart(r) = 0
            /\ HasFinished(r) => Last(emitted[r]).text = <<>>

\* C10: at most one worker is in progress, and from the launch of a worker
\* until its terminal event has been handled the trigger is disabled, so
\* that start_extraction cannot run.
C10_SingleFlight ==
    /\ Cardinality(InProgress) <= 1
    /\ \A r \in Runs : (r \in InProgress \/ TerminalPending(r)) => ~extract_button
    /\ \A r \in Runs : pc[r] # "idle" => r <= nruns

\* A second worker is in progress after the first run ended and the user
\* dismissed its message box.
C10_Witness ==
    /\ nruns = MaxRuns
    /\ MaxRuns \in InProgress
    /\ \A r \in 1..(MaxRuns - 1) : RunOver(r)
    /\ current_transcript.has

\* The GUI thread has handled the terminal event of run r.
Handled(r) == TerminalPositions(r) # {} /\ ~TerminalPending(r)

\* C11: every started run leads to a state in which its terminal event
\* (finished or error) has been emitted and handled and the trigger is
\* enabled, given that every collaborator call returns or raises.
C11_RunEndsAndTriggerReenabled ==
    \A r \in Runs : (pc[r] # "idle") ~> (RunOver(r) /\ Handled(r) /\ extract_button)

\* A failed run has been handled: the message box is open, the trigger enabled.
C11_Witness ==
    \E r \in Runs :
        /\ RunOver(r) /\ HasError(r) /\ Handled(r)
        /\ extract_button
        /\ dialog = "error_box"

\* Run r has computed the name of its final file; that name without ".mp3".
Named(r) == loc[r].destination_path # <<>>
FinalName(r) ==
    LET f == Last(loc[r].destination_path) IN SubSeq(f, 1, Len(f) - 1)

\* C12 as stated: sanitizing the sanitized title again gives the same text
\* (packaged window; runs that did not fall back to the generated name).
C12_SanitizationIdempotent ==
    \A r \in Runs :
        (variant = "src" /\ Named(r) /\ clean_title(loc[r].title) # <<>>) =>
            clean_title(FinalName(r)) = FinalName(r)

\* C13 as stated: the name of the final file is not empty, has at most 50
\* characters and only letters, digits, underscore, white space, hyphen,
\* period and parentheses.
C13_FinalNameValid ==
    \A r \in Runs :
        Named(r) =>
            /\ FinalName(r) # <<>>
            /\ Len(FinalName(r)) <= TitleLimit
            /\ \A i \in DOMAIN FinalName(r) : AllowedChar(FinalName(r)[i])

\* The progress events of run r emitted during the fetch, before the
\* transcription is announced.
FetchProgress(r) ==
    LET n == IF TranscriptionStart(r) = 0 THEN Len(emitted[r]) ELSE TranscriptionStart(r)
    IN SelectSeq(SubSeq(emitted[r], 1, n), LAMBDA e : e.kind = "progress")

\* The value the claim gives for a report: downloaded/total of the first half
\* of the scale, 50 for the end marker.
FirstHalf(d) ==
    IF d.status = "finished" THEN Float(50)
    ELSE Times(Quotient(d.downloaded_bytes, d.total_bytes.val), 50)

\* C14 as stated: each report with a total, and each end marker, emits
\* one progress event, downloaded/total*50 or 50, and every progress value
\* of the fetch phase lies in 0..50.
C14_HookMapsToFirstHalf ==
    \A r \in Runs :
        LET m == Measured(calls[r].reports)
            p == FetchProgress(r)
        IN /\ Len(p) = Len(m)
           /\ \A i \in DOMAIN p : i \in DOMAIN m => ValueOf(p[i]) = FirstHalf(m[i])
           /\ \A i \in DOMAIN p : FloatLeq(ValueOf(p[i]), Float(50))

\* The texts of segments 1..n in order with one blank between neighbours.
RECURSIVE SpaceJoined(_)
SpaceJoined(n) ==
    IF n = 0 THEN <<>>
    ELSE IF n = 1 THEN SegmentAt(1)
    ELSE SpaceJoined(n - 1) \o <<" ">> \o SegmentAt(n)

\* C15: when the engine has yielded its n segments, the text transcribe_audio
\* returns is their texts in order joined by single blanks, trimmed at both
\* ends; a successful run carries that text in its finished event.
C15_TranscriptIsJoinedSegments ==
    \A r \in Runs :
        calls[r].segments >= 0 =>
            /\ loc[r].transcript = Strip(SpaceJoined(calls[r].segments))
            /\ HasFinished(r) => Last(emitted[r]).text = loc[r].transcript

\* A run finished with the text of MaxSegments segments, the third of which
\* starts with a blank.
C15_Witness ==
    \E r \in Runs :
        /\ calls[r].segments = MaxSegments
        /\ HasFinished(r)
        /\ Len(Last(emitted[r]).text) >= 2 * MaxSegments

\* The status the Linux branch emits when the probe fails (line 406).
IsNotFoundStatus(e) ==
    /\ e.kind = "status"
    /\ e.text = <<"FFmpeg not found on system. Please install FFmpeg using your package manager.">>

\* C16: on Linux the provisioner makes no network request and leaves the
\* managed directory as it was; each call probes the system tool once and
\* returns no location, and after a failed probe the first event of the run
\* is the status that says so.
C16_LinuxProvisionerOnlyProbes ==
    /\ [][system = "Linux" => ffmpeg_dir' = ffmpeg_dir]_vars
    /\ [](system = "Linux" =>
            \A r \in Runs :
                /\ calls[r].net = 0
                /\ calls[r].probes = calls[r].provision
                /\ loc[r].ffmpeg_path = None
                /\ calls[r].provision_failed =>
                      emitted[r] # <<>> /\ IsNotFoundStatus(emitted[r][1]))

\* On Linux a run whose probe failed has gone on to the download.
C16_Witness ==
    /\ system = "Linux"
    /\ \E r \in Runs :
          /\ calls[r].provision_failed
          /\ calls[r].probes = 1
          /\ calls[r].download = 1
          /\ IsNotFoundStatus(emitted[r][1])

\* An exception reached the handler of extract_audio from one of its own
\* steps, and the text of that exception.
RaisedInRun(r) ==
    \/ calls[r].mkdir_raised
    \/ calls[r].fetch = "raised"
    \/ calls[r].title_raised
    \/ calls[r].copy_raised
    \/ calls[r].remove_raised
RaisedText(r) ==
    IF calls[r].mkdir_raised THEN "MkdirError"
    ELSE IF calls[r].hook_error # "none" THEN calls[r].hook_error
    ELSE IF calls[r].fetch = "raised" THEN "DownloadError"
    ELSE IF calls[r].title_raised THEN title_error
    ELSE IF calls[r].copy_raised THEN "CopyError"
    ELSE "RemoveError"

\* C17: every exception that reaches the handler of extract_audio (raised by
\* the making of the run's directory, by the fetch or its progress hook, by the handling of the title, by the copy
\* to the final name or by the removal of the working file; the provisioner
\* and the transcriber catch their own and let none out) ends the run with an
\* error event carrying the exception's text, and a worker that is over has
\* emitted a terminal event.
C17_UnexpectedErrorFailsRun ==
    \A r \in Runs :
        /\ RaisedInRun(r) =>
              /\ RunOver(r)
              /\ Last(emitted[r]) = Error(r, <<"Error during extraction: ", RaisedText(r)>>)
        /\ RunOver(r) => TerminalPositions(r) # {}

\* The title was None: the run failed with the text of the TypeError.
C17_Witness ==
    \E r \in Runs :
        /\ variant = "src"
        /\ calls[r].title_raised
        /\ RunOver(r)
        /\ Last(emitted[r]).text = <<"Error during extraction: ", "TypeError">>

\* C18 as stated: the URL a run fetches, the model it loads and whether it
\* transcribes are the values the widgets had when the run was triggered.
C18_RequestImmutable ==
    \A r \in Runs :
        pc[r] # "idle" =>
            /\ loc[r].url = request[r].url
            /\ loc[r].model_size # <<>> => loc[r].model_size = model_size(request[r].model)
            /\ calls[r].transcribe > 0 => request[r].transcribe

\* C19 as stated: a file written by a run (of this launch, or of an earlier
\* one that left it behind) is replaced or removed only by a step of that
\* run.
C19_NoCollision ==
    [][\A f \in fs : f \notin fs' => (f.run \in Runs /\ pc'[f.run] # pc[f.run])]_vars

\* The final file and the transcript the scenario expects.
ScenarioName ==
    <<"H", "e", "l", "l", "o", "W", "o", "r", "l", "d", " ", "T", "e", "s", "t">>
ScenarioTranscript == <<"Hello", " ", "world.">>

\* C20: a run of the packaged window that fetched the title 'Hello/World: Test #clip' and
\* whose transcriber consumed the segments 'Hello' and 'world.' names its
\* final file 'HelloWorld Test.mp3' and ends with finished carrying the
\* transcript 'Hello world.'.
C20_EndToEnd ==
    \A r \in Runs :
        (loc[r].title = ScenarioTitle /\ calls[r].segments = 2) =>
            /\ FinalName(r) = ScenarioName
            /\ loc[r].transcript = ScenarioTranscript
            /\ RunOver(r) =>
                  /\ Last(emitted[r]).kind = "finished"
                  /\ Last(emitted[r]).path = loc[r].destination_path
                  /\ Last(emitted[r]).text = ScenarioTranscript

\* The scenario ran to its end: the file is there under the expected name
\* and the finished event carries the expected transcript.
C20_Witness ==
    \E r \in Runs :
        /\ loc[r].title = ScenarioTitle
        /\ calls[r].segments = 2
        /\ HasFinished(r)
        /\ Exists(fs, TempDir \o <<ScenarioName \o <<".mp3">>>>)
        /\ Last(emitted[r]).text = ScenarioTranscript

\* The phase a worker is in: 0 Idle, 1 Provisioning, 2 Fetching (the download,
\* then the naming and the copy of its file), 3 Transcribing, 4 Finalizing,
\* 5 terminal; and the steps from phase to phase the state machine allows.
PhaseOf(p) ==
    CASE p = "idle" -> 0
      [] p \in {"provision", "provision_call", "provision_get", "provision_stream",
                "provision_get2", "provision_stream2"} -> 1
      [] p \in {"download", "copy"} -> 2
      [] p \in {"t_import", "t_import_call", "t_install", "t_load", "t_model", "t_run"} -> 3
      [] p = "cleanup" -> 4
      [] OTHER -> 5
PhaseSteps ==
    {<<0, 1>>, <<1, 1>>, <<1, 2>>, <<2, 2>>, <<2, 3>>, <<2, 4>>, <<2, 5>>, <<3, 3>>,
     <<3, 4>>, <<4, 5>>}

\* What each phase of run r presupposes.
PhasesInOrder(r) ==
    /\ calls[r].provision = (IF PhaseOf(pc[r]) >= 2 THEN 1 ELSE 0)
    /\ calls[r].download <= 1
    /\ calls[r].download = 1 => PhaseOf(pc[r]) >= 2
    /\ calls[r].transcribe > 0 =>
          /\ calls[r].download = 1 /\ calls[r].fetch = "ok"
          /\ PhaseOf(pc[r]) >= 3
    /\ PhaseOf(pc[r]) \in {3, 4} => Exists(fs, loc[r].mp3_file)
    /\ HasFinished(r) =>
          /\ RunOver(r)
          /\ Named(r) /\ ~calls[r].copy_raised
          /\ Exists(fs, loc[r].destination_path)
          /\ ~Exists(fs, loc[r].mp3_file)

\* C21: a run of the packaged window goes through the phases in the order
\* Idle, Provisioning, Fetching, Transcribing, Finalizing, terminal: the
\* provisioner is called once and has returned before the downloader is
\* called, the transcriber is called only after the downloader returned and
\* the .mp3 was found, and finished is emitted only after the final copy was
\* made and the working file removed.
C21_PhasesInOrder ==
    /\ [](\A r \in Runs : PhasesInOrder(r))
    /\ [][\A r \in Runs :
            pc'[r] # pc[r] => <<PhaseOf(pc[r]), PhaseOf(pc'[r])>> \in PhaseSteps]_vars

\* A run went through every phase and succeeded: one provisioning, one
\* download, a transcription, the copy on disk and the working file gone.
C21_Witness ==
    \E r \in Runs :
        /\ HasFinished(r)
        /\ calls[r].provision = 1 /\ calls[r].download = 1 /\ calls[r].transcribe >= 1
        /\ Exists(fs, loc[r].destination_path)
        /\ ~Exists(fs, loc[r].mp3_file)

\* C22 as stated: one call of the transcriber from extract_audio installs
\* the library at most once and starts the transcription over at most once,
\* and a failed install returns the install-error text.
C22_InstallAtMostOnce ==
    \A r \in Runs :
        /\ calls[r].installs <= 1
        /\ calls[r].transcribe <= 2
        /\ (calls[r].installs > 0 /\ pc[r] \in {"cleanup", "done"}
              /\ calls[r].transcription_failed) =>
              IsErrorText(loc[r].transcript)

\* The positions in the events of run r at which a segment iteration starts
\* (the status of line 449, followed by progress 75).
IterationStarts(r) ==
    {i \in DOMAIN emitted[r] :
        /\ emitted[r][i].kind = "status"
        /\ emitted[r][i].text = <<"Starting transcription... (may take several minutes)">>}

\* The progress values of run r after position i.
ProgressAfter(r, i) ==
    LET p == SelectSeq(SubSeq(emitted[r], i + 1, Len(emitted[r])),
                       LAMBDA e : e.kind = "progress")
    IN [k \in DOMAIN p |-> p[k].pct]

\* The values the claim gives for n segments consumed: 75 at the start, one
\* value after each fifth segment, 95 at the end.
Min(a, b) == IF a < b THEN a ELSE b
ExpectedProgress(n) ==
    <<75>> \o [k \in 1..(n \div 5) |-> Min(95, 75 + Min(5 * k, 100) \div 5)] \o <<95>>

\* C23 as stated: a transcription that consumed n segments emitted, from the
\* start of its iteration, one progress value after each fifth segment,
\* 75 + min(index, 100) / 5 clamped at 95; every progress value from the
\* start of an iteration until the transcriber returns lies in 75..95; no
\* progress value of the transcriber is above 95.
C23_SegmentProgress ==
    \A r \in Runs :
        /\ (calls[r].segments >= 0 /\ IterationStarts(r) # {}) =>
              LET i == CHOOSE j \in IterationStarts(r) : \A k \in IterationStarts(r) : k <= j
              IN ProgressAfter(r, i) = ExpectedProgress(calls[r].segments)
        /\ \A i \in IterationStarts(r) :
              \A k \in DOMAIN ProgressAfter(r, i) : ProgressAfter(r, i)[k] \in 75..95
        /\ (TranscriptionStart(r) > 0) =>
              \A k \in DOMAIN ProgressAfter(r, TranscriptionStart(r)) :
                  ProgressAfter(r, TranscriptionStart(r))[k] <= 95

\* The archives a download leaves in the managed directory.
Archives == {"ffmpeg.zip", "ffprobe.zip"}

\* C24 as stated: when the provisioner has returned a location (Windows and
\* macOS only), both executables are in the managed directory and no
\* downloaded archive is left there.
C24_ToolsPresent ==
    \A r \in Runs :
        loc[r].ffmpeg_path.has =>
            /\ system \in {"Windows", "Darwin"}
            /\ loc[r].ffmpeg_path = Some(FfmpegDirPath)
            /\ RequiredTools(system) \subseteq ffmpeg_dir
            /\ ffmpeg_dir \cap Archives = {}

\* C25: when a run has emitted finished, the path it reports is that of the
\* final file, that file is on disk, and it is not the path of the run's
\* working file; a run whose title cleans to its own identifier, so that
\* both paths would agree, fails at the copy and emits no finished.
C25_DeliverableExists ==
    \A r \in Runs :
        /\ HasFinished(r) =>
              /\ Last(emitted[r]).path = loc[r].destination_path
              /\ Exists(fs, Last(emitted[r]).path)
              /\ Last(emitted[r]).path # loc[r].mp3_file
        /\ (Named(r) /\ loc[r].destination_path = loc[r].mp3_file) =>
              /\ calls[r].copy_raised
              /\ RunOver(r) /\ ~HasFinished(r)

\* A run of the packaged window finished: its final file is in the
\* directory its working file was removed from.
C25_Witness ==
    \E r \in Runs :
        /\ variant = "src"
        /\ HasFinished(r)
        /\ loc[r].title = <<"a">>
        /\ Exists(fs, Last(emitted[r]).path)
        /\ ~Exists(fs, loc[r].mp3_file)
        /\ SubSeq(loc[r].destination_path, 1, 1) = SubSeq(loc[r].mp3_file, 1, 1)

====
